---- MODULE Spec2Model ----
(***************************************************************************)
(* Hypatia: the recursive page map of the x86_64 crate (x86_64/src/vm.rs)  *)
(* as a state machine over physical memory.                                *)
(*                                                                         *)
(* A 64-bit word (usize, u64, a PTE, an HPA) is the set of its one bits:   *)
(* bit b of the word is set iff b is in the set.  The bitwise operators of *)
(* the source are then set operations, and addition is carry propagation.  *)
(* Page-table memory is reached the way the code reaches it: through the   *)
(* virtual windows of the recursive map, resolved by the MMU's four-level  *)
(* walk from the current root, so the self map (slot 511) and the side map *)
(* (slot 510) are facts about memory, not assumptions of the model.        *)
(*                                                                         *)
(* A `let x = e` of the source whose value is used more than once is bound *)
(* as x \in {e}, so that e is evaluated once, as the code evaluates it.    *)
(***************************************************************************)
EXTENDS Integers, FiniteSets, Sequences, TLC

VARIABLES mem, nalloc, status, last, prev, bump, mp, plat, boot, calc

vars == <<mem, nalloc, status, last, prev, bump, mp, plat, boot, calc>>

---------------------------------------------------------------------------
(* Bounds of the model.                                                    *)

\* Frames the allocator callbacks can hand out before they are exhausted.
MaxAlloc == 5

\* Calls of BumpAlloc::alloc_bytes made on one allocator.
MaxCalls == 4

\* Turns of the polling loop of init_sipi_sipi (200 in the source) and of
\* the loop of wait_for_aps (500 * 1000 in the source).
MaxPolls == 2
MaxWaits == 2

---------------------------------------------------------------------------
(* 64-bit words as sets of bit positions.                                  *)

Bits == 0..63

And(a, b) == a \cap b
Or(a, b) == a \cup b
Xor(a, b) == (a \ b) \cup (b \ a)
Not(a) == Bits \ a
Shl(a, s) == {x + s : x \in {y \in a : y + s \in Bits}}
Shr(a, s) == {x - s : x \in {y \in a : y >= s}}

\* Wrapping addition modulo 2^64: a + b = (a xor b) + ((a and b) << 1).
RECURSIVE Add(_, _)
Add(a, b) == IF b = {} THEN a ELSE Add(Xor(a, b), Shl(And(a, b), 1))

\* Unsigned a < b: the highest bit where they differ is set in b.
Lt(a, b) ==
    /\ a # b
    /\ LET d == Xor(a, b) IN (CHOOSE x \in d : \A y \in d : y <= x) \in b

\* The word of a small natural number.
Word(n) == {b \in 0..30 : (n \div (2 ^ b)) % 2 = 1}

---------------------------------------------------------------------------
(* PTEFlags and PTE.                                                       *)

PRESENT == {0}
WRITE == {1}
USER == {2}
WRTHRU == {3}
NOCACHE == {4}
ACCESS == {5}
DIRTY == {6}
HUGE == {7}
GLOBAL == {8}
NX == {63}

PTEFlags_all ==
    PRESENT \cup WRITE \cup USER \cup WRTHRU \cup NOCACHE \cup ACCESS
        \cup DIRTY \cup HUGE \cup GLOBAL \cup NX

\* 0x0000_7FFF_FFFF_F000
PFA_MASK == 12..46

\* PTE::new: the assertion fails (ok = FALSE) when hpa has bits outside
\* PFA_MASK.
PTE_new(hpa, flags) ==
    LET address == And(hpa, PFA_MASK)
    IN  [ok |-> hpa = address, pte |-> Or(address, flags)]

pfa(pte) == And(pte, PFA_MASK)
flags(pte) == And(pte, PTEFlags_all)
is_present(pte) == PRESENT \subseteq flags(pte)
is_big(pte) == HUGE \subseteq flags(pte)
is_zero(pte) == pte = {}

---------------------------------------------------------------------------
(* Physical memory: 8-byte words by physical address; a word that was      *)
(* never written, or was cleared, is zero and is left out of the function. *)

PhysRead(m, pa) == IF pa \in DOMAIN m THEN m[pa] ELSE {}

PhysWrite(m, pa, w) ==
    IF w = {}
    THEN [x \in DOMAIN m \ {pa} |-> m[x]]
    ELSE [x \in DOMAIN m \cup {pa} |-> IF x = pa THEN w ELSE m[x]]

\* The current root: the frame CR3 names (0x1000).
CR3 == {12}

\* Bits 12..51 of a paging-structure entry hold the next frame's address.
MMU_ADDR == 12..51

\* The nine index bits of va that start at bit s.
MmuIndex(va, s) == And(Shr(va, s), 0..8)

\* A canonical address repeats bit 47 in bits 48..63.
Canonical(va) == And(va, 48..63) = (IF 47 \in va THEN 48..63 ELSE {})

MmuFault == [ok |-> FALSE, pa |-> {}]

\* The MMU's walk of va from the table in frame table, whose index bits
\* start at bit s: 39 at the root, then 30 and 21, where an entry may be a
\* big page, and 12.
RECURSIVE MmuWalk(_, _, _, _)
MmuWalk(m, va, table, s) ==
    CHOOSE t \in
        {IF ~is_present(e) THEN MmuFault
         ELSE IF s = 12
         THEN [ok |-> TRUE, pa |-> Or(And(e, MMU_ADDR), And(va, 0..11))]
         ELSE IF s < 39 /\ is_big(e)
         THEN [ok |-> TRUE, pa |-> Or(And(e, s..51), And(va, 0..(s - 1)))]
         ELSE MmuWalk(m, va, And(e, MMU_ADDR), s - 9) :
             e \in {PhysRead(m, Add(table, Shl(MmuIndex(va, s), 3)))}} : TRUE

\* The MMU's walk of va from CR3: the physical address, or a page fault.
MmuTranslate(m, va) ==
    IF ~Canonical(va) THEN MmuFault ELSE MmuWalk(m, va, CR3, 39)

\* A load and a store of a PTE through a virtual address.
VirtRead(m, va) ==
    CHOOSE r \in
        {[ok |-> t.ok, val |-> IF t.ok THEN PhysRead(m, t.pa) ELSE {}] :
             t \in {MmuTranslate(m, va)}} : TRUE

VirtWrite(m, va, w) ==
    CHOOSE r \in
        {[ok |-> t.ok, mem |-> IF t.ok THEN PhysWrite(m, t.pa, w) ELSE m] :
             t \in {MmuTranslate(m, va)}} : TRUE

---------------------------------------------------------------------------
(* The Level trait: Level4 .. Level1 are L = 4 .. 1.                       *)

BASE_ADDRESS(L) ==
    CASE L = 4 -> 12..63      \* 0xFFFF_FFFF_FFFF_F000
      [] L = 3 -> 21..63      \* 0xFFFF_FFFF_FFE0_0000
      [] L = 2 -> 30..63      \* 0xFFFF_FFFF_C000_0000
      [] L = 1 -> 39..63      \* 0xFFFF_FF80_0000_0000

SIDE_BASE_ADDRESS(L) ==
    CASE L = 4 -> 13..63      \* 0xFFFF_FFFF_FFFF_E000
      [] L = 3 -> 22..63      \* 0xFFFF_FFFF_FFC0_0000
      [] L = 2 -> 31..63      \* 0xFFFF_FFFF_8000_0000
      [] L = 1 -> 40..63      \* 0xFFFF_FF00_0000_0000

PAGE_SHIFT(L) ==
    CASE L = 4 -> 39 [] L = 3 -> 30 [] L = 2 -> 21 [] L = 1 -> 12

\* !0 >> SIGN_EXTENSION_BITS
ADDRESS_MASK == Shr(Bits, 16)

\* A variant of index that keeps the sign-extension bits; C35 tells it from
\* index.
index_signed(L, va) == Shr(va, PAGE_SHIFT(L))

index(L, va) == Shr(And(va, ADDRESS_MASK), PAGE_SHIFT(L))

\* The virtual address pte_ref dereferences (size_of::<PTE>() is 8).
pte_ref(L, va) == Add(BASE_ADDRESS(L), Shl(index(L, va), 3))
side_pte_ref(L, va) == Add(SIDE_BASE_ADDRESS(L), Shl(index(L, va), 3))

None == [k |-> "None", v |-> {}]
NextTable(pte) == [k |-> "Next", v |-> pte]
Page(hpa) == [k |-> "Page", v |-> hpa]

\* A variant of decode that takes a present entry with HUGE set for a
\* table; C30 tells it from decode.
decode_table(L, pte) ==
    IF L = 4 THEN (IF is_present(pte) THEN NextTable(pte) ELSE None)
    ELSE IF L = 1 THEN (IF ~is_present(pte) THEN None ELSE Page(pfa(pte)))
    ELSE IF ~is_present(pte) THEN None
    ELSE NextTable(pte)

decode(L, pte) ==
    IF L = 4 THEN (IF is_present(pte) THEN NextTable(pte) ELSE None)
    ELSE IF L = 1 THEN (IF ~is_present(pte) THEN None ELSE Page(pfa(pte)))
    ELSE IF ~is_present(pte) THEN None
    ELSE IF is_big(pte) THEN Page(pfa(pte))
    ELSE NextTable(pte)

\* Level::entry: ok is FALSE when the load page-faults.
entry(m, L, va) ==
    CHOOSE e \in
        {[ok |-> r.ok, e |-> decode(L, r.val)] :
             r \in {VirtRead(m, pte_ref(L, va))}} : TRUE

---------------------------------------------------------------------------
(* walk and translate.                                                     *)

Walk(ok, e4, e3, e2, e1) == [ok |-> ok, w |-> <<e4, e3, e2, e1>>]

\* The entry of a level is looked at only where the level above is a
\* table.
walk(m, va) ==
    CHOOSE w \in
        {IF ~pt4e.ok THEN Walk(FALSE, None, None, None, None)
         ELSE IF pt4e.e.k # "Next" THEN Walk(TRUE, pt4e.e, None, None, None)
         ELSE IF ~pt3e.ok THEN Walk(FALSE, None, None, None, None)
         ELSE IF pt3e.e.k # "Next" THEN Walk(TRUE, pt4e.e, pt3e.e, None, None)
         ELSE IF ~pt2e.ok THEN Walk(FALSE, None, None, None, None)
         ELSE IF pt2e.e.k # "Next"
         THEN Walk(TRUE, pt4e.e, pt3e.e, pt2e.e, None)
         ELSE IF ~pt1e.ok THEN Walk(FALSE, None, None, None, None)
         ELSE Walk(TRUE, pt4e.e, pt3e.e, pt2e.e, pt1e.e) :
             pt4e \in {entry(m, 4, va)}, pt3e \in {entry(m, 3, va)},
             pt2e \in {entry(m, 2, va)}, pt1e \in {entry(m, 1, va)}} : TRUE

\* Page::MASK = SIZE - 1 for the 4 KiB, 2 MiB and 1 GiB pages.
MASK4K == 0..11
MASK2M == 0..20
MASK1G == 0..29

Some(x) == [k |-> "Some", v |-> x]
Fault == [k |-> "Fault", v |-> {}]

\* A variant of translate_walk that drops the offset within a 4 KiB page;
\* C1 tells it from translate_walk.
translate_walk_frame(va, w) ==
    IF w[1].k # "None" /\ w[2].k = "Next" /\ w[3].k = "Next" /\ w[4].k = "Page"
    THEN Some(w[4].v)
    ELSE IF w[1].k # "None" /\ w[2].k = "Next" /\ w[3].k = "Page"
    THEN Some(Add(w[3].v, And(va, MASK2M)))
    ELSE IF w[1].k # "None" /\ w[2].k = "Page"
    THEN Some(Add(w[2].v, And(va, MASK1G)))
    ELSE None

translate_walk(va, w) ==
    IF w[1].k # "None" /\ w[2].k = "Next" /\ w[3].k = "Next" /\ w[4].k = "Page"
    THEN Some(Add(w[4].v, And(va, MASK4K)))
    ELSE IF w[1].k # "None" /\ w[2].k = "Next" /\ w[3].k = "Page"
    THEN Some(Add(w[3].v, And(va, MASK2M)))
    ELSE IF w[1].k # "None" /\ w[2].k = "Page"
    THEN Some(Add(w[2].v, And(va, MASK1G)))
    ELSE None

\* translate: Some(hpa), None, or the page fault the walk's loads raise.
translate(m, va) ==
    CHOOSE t \in
        {IF w.ok THEN translate_walk(va, w.w) ELSE Fault :
             w \in {walk(m, va)}} : TRUE

---------------------------------------------------------------------------
(* A call in progress: the memory, the allocator's cursor, what is left of  *)
(* the budget of the allocator callback, the message the callback fails     *)
(* with, and how the call stands: "run" (then Ok), "Err", "panic" (a failed *)
(* assertion) or "fault" (a page fault on a load or store).  tlb tells     *)
(* whether the call has stored to a page table ("stale") and whether it    *)
(* has flushed the TLB since its last store ("flushed").  ev is what the   *)
(* call has done so far: the frames it allocated, the pages it mapped and  *)
(* the entry it invoked.                                                   *)

Call(m, n, b, emsg) ==
    [mem |-> m, nalloc |-> n, budget |-> b, emsg |-> emsg, res |-> "run",
     err |-> "", tlb |-> "none", ev |-> <<>>]

\* A store to a page-table entry: the TLB may now hold what was there.
Store(S, m) == [S EXCEPT !.mem = m, !.tlb = "stale"]

\* flush_tlb: CR3 is read and written back.
flush_tlb(S) == [S EXCEPT !.tlb = "flushed"]

\* A variant of the guard's drop that does not flush; C11 tells it from
\* TLBFlushGuard_drop.
TLBFlushGuard_forget(S) == S

\* Drop for TLBFlushGuard, run when the function that holds the guard
\* returns.  A panic does not unwind (the panic handler loops) and a page
\* fault does not return, so neither drops the guard.
TLBFlushGuard_drop(S) == IF S.res \in {"run", "Err"} THEN flush_tlb(S) ELSE S

Err(S, msg) == [S EXCEPT !.res = "Err", !.err = msg]
Stop(S, how) == [S EXCEPT !.res = how]

\* The frames the loader's bump allocator hands out, from 64 MiB on.
ALLOC_BASE == {26}
AllocFrame(n) == Add(ALLOC_BASE, Shl(Word(n), 12))

\* load_addr(offset + 1) - load_addr(offset) in 4 KiB frames: 32 MiB.
REGION_STRIDE == 8192

\* A variant of the allocator callback whose frames are all taken from
\* the region of the first binary; C27 tells it from allocator.
allocator_first(S) ==
    IF S.budget > 0 /\ S.nalloc % REGION_STRIDE < MaxAlloc
    THEN [ok |-> TRUE, pf |-> AllocFrame(S.nalloc % REGION_STRIDE),
          S |-> [S EXCEPT !.nalloc = @ + 1, !.budget = @ - 1,
                          !.ev = Append(@, <<"alloc",
                                     AllocFrame(S.nalloc % REGION_STRIDE)>>)]]
    ELSE [ok |-> FALSE, pf |-> {}, S |-> Err(S, S.emsg)]

\* The allocator callback, a FnMut() -> Result<PF4K>: a fresh zeroed frame,
\* or its error once the callback's budget or the region is used up.
\* nalloc counts the frames from 64 MiB on; the region of a binary begins
\* every REGION_STRIDE frames and MaxAlloc frames of it can be handed out.
allocator(S) ==
    IF S.budget > 0 /\ S.nalloc % REGION_STRIDE < MaxAlloc
    THEN [ok |-> TRUE, pf |-> AllocFrame(S.nalloc),
          S |-> [S EXCEPT !.nalloc = @ + 1, !.budget = @ - 1,
                          !.ev = Append(@, <<"alloc", AllocFrame(S.nalloc)>>)]]
    ELSE [ok |-> FALSE, pf |-> {}, S |-> Err(S, S.emsg)]

\* A variant of page_perm_flags that sets NX on executable pages; C6 tells
\* it from page_perm_flags.
page_perm_flags_nx(r, w, x) ==
    (IF r THEN PRESENT ELSE {}) \cup (IF w THEN WRITE ELSE {})
        \cup (IF x THEN NX ELSE {})

page_perm_flags(r, w, x) ==
    (IF r THEN PRESENT ELSE {}) \cup (IF w THEN WRITE ELSE {})
        \cup (IF ~x THEN NX ELSE {})

alloc_inner(S) ==
    CHOOSE r \in
        {IF ~a.ok THEN [S |-> a.S, pte |-> {}]
         ELSE IF ~p.ok THEN [S |-> Stop(a.S, "panic"), pte |-> {}]
         ELSE [S |-> a.S, pte |-> p.pte] :
             <<a, p>> \in {<<x, PTE_new(x.pf, Or(PRESENT, WRITE))>> :
                               x \in {allocator(S)}}} : TRUE

set_entry(S, L, va, pte) ==
    CHOOSE r \in
        {IF w.ok THEN Store(S, w.mem) ELSE Stop(S, "fault") :
             w \in {VirtWrite(S.mem, pte_ref(L, va), pte)}} : TRUE

set_side_entry(S, L, va, pte) ==
    CHOOSE r \in
        {IF w.ok THEN Store(S, w.mem) ELSE Stop(S, "fault") :
             w \in {VirtWrite(S.mem, side_pte_ref(L, va), pte)}} : TRUE

\* Level::clear
clear(S, L, va) == set_entry(S, L, va, {})

\* L::set_entry(va, alloc_inner(allocator)?)
set_inner(S, L, va) ==
    CHOOSE r \in
        {IF a.S.res # "run" THEN a.S ELSE set_entry(a.S, L, va, a.pte) :
             a \in {alloc_inner(S)}} : TRUE

\* A variant of the assertion that guards the self-map windows only; C5
\* tells it from assert_va.
assert_va_self(va) == Lt(va, BASE_ADDRESS(1))

\* The assertion map opens with: va is below every self- and side-map window.
assert_va(va) == Lt(va, SIDE_BASE_ADDRESS(1))

\* The three `if let` of map over the walk w, from level L down to 2: a
\* table is allocated and entered where the walk has None.
RECURSIVE map_tables(_, _, _, _)
map_tables(S, w, va, L) ==
    IF L = 1 \/ S.res # "run" THEN S
    ELSE map_tables(IF w[5 - L].k = "None" THEN set_inner(S, L, va) ELSE S,
                    w, va, L - 1)

\* map: the walk is taken once, before any entry is written.
map(S, hpf, fl, va) ==
    IF ~assert_va(va) THEN Stop(S, "panic")
    ELSE CHOOSE r \in
        {IF ~w.ok THEN Stop(S, "fault")
         ELSE IF s2.res # "run" THEN s2
         ELSE IF w.w[4].k # "None" THEN Err(s2, "Already mapped")
         ELSE IF ~p.ok THEN Stop(s2, "panic")
         ELSE set_entry(s2, 1, va, p.pte) :
             <<w, s2>> \in {<<x, IF x.ok THEN map_tables(S, x.w, va, 4)
                                 ELSE S>> : x \in {walk(S.mem, va)}},
             p \in {PTE_new(hpf, fl)}} : TRUE

\* A variant of map_leaf whose allocator hands out frames; C7 tells it from
\* map_leaf.
map_leaf_alloc(m, n, hpf, va, r, w, x) ==
    map(Call(m, n, 3, "not a leaf"), hpf, page_perm_flags(r, w, x), va)

\* map_leaf: map with an allocator that always fails.
map_leaf(m, n, hpf, va, r, w, x) ==
    map(Call(m, n, 0, "not a leaf"), hpf, page_perm_flags(r, w, x), va)

unmap(S, va) ==
    CHOOSE r \in
        {IF ~w.ok THEN Stop(S, "fault")
         ELSE IF \A i \in 1..4 : w.w[i].k # "None" THEN clear(S, 4, va)
         ELSE S : w \in {walk(S.mem, va)}} : TRUE

---------------------------------------------------------------------------
(* Page-size arithmetic of the VPageAddr types, by level: V512GA is L = 4,  *)
(* V1GA is 3, V2MA is 2, V4KA is 1.                                         *)

PAGE_MASK(L) == 0..(PAGE_SHIFT(L) - 1)
PAGE_SIZE(L) == {PAGE_SHIFT(L)}

new_round_down(L, va) == And(va, Not(PAGE_MASK(L)))
\* A variant of new_round_up that rounds down; C8 tells it from
\* new_round_up.
new_round_up_floor(L, va) == And(va, Not(PAGE_MASK(L)))

new_round_up(L, va) == And(Add(va, PAGE_MASK(L)), Not(PAGE_MASK(L)))

---------------------------------------------------------------------------
(* Range construction and the side-load slot.  A range is <<start, end>>.  *)

\* The body of make_ranges_level's inner loop at va.
make_entry(S, L, va) ==
    CHOOSE r \in
        {IF ~e.ok THEN Stop(S, "fault")
         ELSE IF e.e.k = "None" THEN set_inner(S, L, va)
         ELSE S : e \in {entry(S.mem, L, va)}} : TRUE

\* Level4::set_side_entry(va, entry.clone())
copy_entry(S, va) ==
    IF S.res # "run" THEN S
    ELSE CHOOSE r \in
        {set_side_entry(S, 4, va, e.val) :
             e \in {VirtRead(S.mem, pte_ref(4, va))}} : TRUE

RECURSIVE steps(_, _, _, _, _)

\* A variant of make_shared_entry that copies only the entries it has just
\* allocated; C9 tells it from make_shared_entry.
make_shared_entry_new(S, va) ==
    CHOOSE q \in
        {IF ~r.ok THEN Stop(S, "fault")
         ELSE IF ~is_zero(r.val) THEN S
         ELSE CHOOSE q1 \in
             {copy_entry(s1, va) : s1 \in {set_inner(S, 4, va)}} : TRUE :
             r \in {VirtRead(S.mem, pte_ref(4, va))}} : TRUE

\* The body of make_shared_ranges_level4's inner loop at va.
make_shared_entry(S, va) ==
    CHOOSE q \in
        {IF ~r.ok THEN Stop(S, "fault")
         ELSE CHOOSE q1 \in
             {copy_entry(s1, va) :
                  s1 \in {IF is_zero(r.val) THEN set_inner(S, 4, va)
                          ELSE S}} : TRUE :
             r \in {VirtRead(S.mem, pte_ref(4, va))}} : TRUE

\* for addr in start..end: the loop of make_ranges_level, or with shared
\* the loop of make_shared_ranges_level4.
steps(S, L, shared, addr, end) ==
    IF S.res # "run" \/ ~Lt(addr, end) THEN S
    ELSE steps(IF shared THEN make_shared_entry(S, addr)
               ELSE make_entry(S, L, addr),
               L, shared, Add(addr, PAGE_SIZE(L)), end)

RECURSIVE ranges_level(_, _, _, _)
ranges_level(S, L, shared, ranges) ==
    IF S.res # "run" \/ ranges = <<>> THEN S
    ELSE LET start == new_round_down(L, Head(ranges)[1])
             end == new_round_up(L, Head(ranges)[2])
         IN  IF ~Lt(end, SIDE_BASE_ADDRESS(1)) THEN Stop(S, "panic")
             ELSE ranges_level(steps(S, L, shared, start, end), L, shared,
                               Tail(ranges))

make_ranges_level(S, L, ranges) == ranges_level(S, L, FALSE, ranges)
make_shared_ranges_level4(S, ranges) == ranges_level(S, 4, TRUE, ranges)

\* make_ranges_level for the levels from L down to 2.
RECURSIVE make_ranges_from(_, _, _)
make_ranges_from(S, L, ranges) ==
    IF L = 1 THEN S
    ELSE make_ranges_from(make_ranges_level(S, L, ranges), L - 1, ranges)

make_ranges(S, ranges) == make_ranges_from(S, 4, ranges)

SELF_INDEX == 511
SIDE_INDEX == 510

\* The virtual address of table.entries[SIDE_INDEX] of the root.
SideSlot == Add(BASE_ADDRESS(4), Shl(Word(SIDE_INDEX), 3))

side_load(S, pf) ==
    CHOOSE r \in
        {IF ~p.ok THEN Stop(S, "panic")
         ELSE IF ~w.ok THEN Stop(S, "fault")
         ELSE TLBFlushGuard_drop(Store(S, w.mem)) :
             <<p, w>> \in {<<x, VirtWrite(S.mem, SideSlot, x.pte)>> :
                               x \in {PTE_new(pf, Or(PRESENT, WRITE))}}} : TRUE

\* unload_side: the call and the frame it returns.
unload_side(S) ==
    CHOOSE q \in
        {IF ~r.ok \/ ~w.ok THEN [S |-> Stop(S, "fault"), pf |-> {}]
         ELSE [S |-> TLBFlushGuard_drop(Store(S, w.mem)),
               pf |-> pfa(r.val)] :
             r \in {VirtRead(S.mem, SideSlot)},
             w \in {VirtWrite(S.mem, SideSlot, {})}} : TRUE

make_shared_ranges(S, ranges, side) ==
    CHOOSE q \in
        {IF s2.res # "run" THEN [S |-> s2, pf |-> {}] ELSE unload_side(s2) :
             s2 \in {make_ranges_from(
                         make_shared_ranges_level4(side_load(S, side), ranges),
                         3, ranges)}} : TRUE

\* Level::make_side_level of level L: the levels above first, then an
\* inner table where the side entry of va at L decodes to None.
RECURSIVE make_side_level(_, _, _)
make_side_level(S, L, va) ==
    CHOOSE q \in
        {IF s1.res # "run" THEN s1
         ELSE CHOOSE q1 \in
             {IF ~e.ok THEN Stop(s1, "fault")
              ELSE IF decode(L, e.val) # None THEN s1
              ELSE CHOOSE q2 \in
                  {IF a.S.res # "run" THEN a.S
                   ELSE set_side_entry(a.S, L, va, a.pte) :
                       a \in {alloc_inner(s1)}} : TRUE :
                  e \in {VirtRead(s1.mem, side_pte_ref(L, va))}} : TRUE :
             s1 \in {IF L = 4 THEN S ELSE make_side_level(S, L + 1, va)}} : TRUE

\* usize::wrapping_sub
wrapping_sub(a, b) == Add(a, Add(Not(b), {0}))

\* The level whose page size share_range advances by at va: the first of
\* 512 GiB, 1 GiB, 2 MiB, 4 KiB that va is a multiple of and that is not
\* more than end - va; 0 where there is none.
share_level(va, end) ==
    CHOOSE q \in
        {IF ~Lt(rem, PAGE_SIZE(4)) /\ And(va, PAGE_MASK(4)) = {} THEN 4
         ELSE IF ~Lt(rem, PAGE_SIZE(3)) /\ And(va, PAGE_MASK(3)) = {} THEN 3
         ELSE IF ~Lt(rem, PAGE_SIZE(2)) /\ And(va, PAGE_MASK(2)) = {} THEN 2
         ELSE IF ~Lt(rem, PAGE_SIZE(1)) /\ And(va, PAGE_MASK(1)) = {} THEN 1
         ELSE 0 : rem \in {wrapping_sub(end, va)}} : TRUE

\* One branch of the loop of share_range: the side levels above L are made
\* and the entry of va at L of the current space is copied to the side.
share_entry(S, L, va) ==
    CHOOSE q \in
        {IF s1.res # "run" THEN s1
         ELSE CHOOSE q1 \in
             {IF ~e.ok THEN Stop(s1, "fault")
              ELSE set_side_entry(
                       [s1 EXCEPT !.ev = Append(@, <<"share", va, L>>)],
                       L, va, e.val) :
                  e \in {VirtRead(s1.mem, pte_ref(L, va))}} : TRUE :
             s1 \in {IF L = 4 THEN S ELSE make_side_level(S, L + 1, va)}} : TRUE

\* while va != end { ...; va += len }
RECURSIVE share_steps(_, _, _)
share_steps(S, va, end) ==
    IF S.res # "run" \/ va = end THEN S
    ELSE CHOOSE q \in
        {IF L = 0 THEN Stop(Err(S, "impossible page size"), "panic")
         ELSE share_steps(share_entry(S, L, va), Add(va, PAGE_SIZE(L)), end) :
             L \in {share_level(va, end)}} : TRUE

\* share_range: the call and the frame it returns.
share_range(S, range, side) ==
    IF Lt(SIDE_BASE_ADDRESS(1), range[2])
    THEN [S |-> Stop(Err(S, "attempting to map in the recursive region"),
                     "panic"),
          pf |-> {}]
    ELSE CHOOSE q \in
        {IF s2.res # "run" THEN [S |-> s2, pf |-> {}] ELSE unload_side(s2) :
             s2 \in {share_steps(side_load(S, side), range[1], range[2])}} :
                 TRUE

\* for addr in start..end { Level4::pte_ref(addr.addr()).clear() }
RECURSIVE clear_steps(_, _, _)
clear_steps(S, addr, end) ==
    IF S.res # "run" \/ ~Lt(addr, end) THEN S
    ELSE clear_steps(clear(S, 4, addr), Add(addr, PAGE_SIZE(4)), end)

RECURSIVE unmap_root_from(_, _)
unmap_root_from(S, ranges) ==
    IF S.res # "run" \/ ranges = <<>> THEN S
    ELSE unmap_root_from(
             clear_steps(S, new_round_down(4, Head(ranges)[1]),
                         new_round_up(4, Head(ranges)[2])),
             Tail(ranges))

unmap_root_ranges(S, ranges) == TLBFlushGuard_drop(unmap_root_from(S, ranges))

---------------------------------------------------------------------------
(* The loader: load of theon/src/main.rs, for a binary whose PT_LOAD       *)
(* headers give the page ranges regions, all with the permissions perm.    *)

\* Result::expect: an Err is a panic.
Expect(S) == IF S.res = "Err" THEN Stop(S, "panic") ELSE S

\* &bytes[header.file_range()]: the bytes of the file a header names, given
\* by the offset of the first of them in the range and by their number.
file_slice(filesz) == [off |-> 0, len |-> filesz]

\* Page4K::SIZE, in bytes.
Page4K_SIZE == 4096

\* usize::min(src.len(), Page4K::SIZE)
copy_len(src) == IF src.len < Page4K_SIZE THEN src.len ELSE Page4K_SIZE

\* src = &src[len..], when src is not empty.
src_after(src) ==
    IF src.len = 0 THEN src
    ELSE [off |-> src.off + copy_len(src), len |-> src.len - copy_len(src)]

\* core::ptr::copy_nonoverlapping(src.as_ptr(), dst, len), when src is not
\* empty.  mem keeps the words of the page tables; of a data page the call
\* records which bytes of the file were written to the head of the frame.
copy_nonoverlapping(S, pf, src) ==
    IF src.len = 0 THEN S
    ELSE [S EXCEPT !.ev = Append(@, <<"copy", pf, src.off, copy_len(src)>>)]

\* One turn of `for addr in region.clone()`: a data page is allocated,
\* filled from src and mapped at addr.
load_page(S, addr, perm, src) ==
    CHOOSE q \in
        {IF ~a.ok THEN Expect(a.S)
         ELSE CHOOSE q1 \in
             {Expect([c EXCEPT !.mem = m.mem, !.res = m.res, !.err = m.err,
                               !.tlb = IF m.tlb = "none" THEN @ ELSE m.tlb,
                               !.ev = IF m.res = "run"
                                      THEN Append(@, <<"page", addr, a.pf>>)
                                      ELSE @]) :
                  <<c, m>> \in
                      {<<copy_nonoverlapping(a.S, a.pf, src),
                         map_leaf(a.S.mem, a.S.nalloc, a.pf, addr, perm[1],
                                  perm[2], perm[3])>>}} : TRUE :
             a \in {allocator(S)}} : TRUE

RECURSIVE load_pages(_, _, _, _, _)
load_pages(S, addr, end, perm, src) ==
    IF S.res # "run" \/ ~Lt(addr, end) THEN S
    ELSE load_pages(load_page(S, addr, perm, src), Add(addr, PAGE_SIZE(1)),
                    end, perm, src_after(src))

\* for (&header, region) in headers.iter().zip(&regions); sizes are the
\* file sizes of the headers.
RECURSIVE load_regions(_, _, _, _)
load_regions(S, regions, sizes, perm) ==
    IF S.res # "run" \/ regions = <<>> THEN S
    ELSE load_regions(
             load_pages(S, Head(regions)[1], Head(regions)[2], perm,
                        file_slice(Head(sizes))),
             Tail(regions), Tail(sizes), perm)

\* init(): the ELF entry of a segment is called.  What it runs is code of
\* the binary that was loaded; it is taken to return and to leave the page
\* tables as they are.
init(S) == [S EXCEPT !.ev = Append(@, <<"entry">>)]

\* A variant of the end of load that calls the entry of a task as well;
\* C24 tells it from dispose.
dispose_entry(S, regions, task) ==
    IF S.res # "run" THEN S
    ELSE init(IF task THEN unmap_root_ranges(S, regions) ELSE S)

\* The end of load: unmap_root_ranges for a task, the entry for a segment.
dispose(S, regions, task) ==
    IF S.res # "run" THEN S
    ELSE IF task THEN unmap_root_ranges(S, regions)
    ELSE init(S)

\* load from the allocation of the root on: the call and the root it
\* returns.
load(S, regions, sizes, perm, task) ==
    CHOOSE q \in
        {IF ~a.ok THEN [S |-> Expect(a.S), pf |-> {}]
         ELSE CHOOSE q1 \in
             {[S |-> dispose(t, regions, task), pf |-> r.pf] :
                  <<r, t>> \in
                      {<<x, load_regions(Expect(x.S), regions, sizes, perm)>> :
                           x \in {make_shared_ranges(a.S, regions, a.pf)}}} :
                 TRUE :
             a \in {allocator(S)}} : TRUE

---------------------------------------------------------------------------
(* main of theon/src/main.rs.  A binary of the archive is given by whether *)
(* it can be extracted and parsed, the vm_range <<start, end>> of each of  *)
(* its PT_LOAD headers and the permissions of the headers; the boot image  *)
(* by whether the RAM regions hold the load region, whether the module     *)
(* bin.a is there and can be parsed, and its binaries.                     *)

\* (64 + offset * 32) * MIB
load_addr(offset) == Shl(Word(64 + offset * 32), 20)

\* 16 * MIB
BINARY_IMAGE_MEMORY_SIZE == {24}

BINARY_TABLE ==
    << <<"devices", load_addr(0), "Segment">>,
       <<"global", load_addr(1), "Segment">>,
       <<"memory", load_addr(2), "Segment">>,
       <<"monitor", load_addr(3), "Segment">>,
       <<"scheduler", load_addr(4), "Segment">>,
       <<"supervisor", load_addr(5), "Segment">>,
       <<"trace", load_addr(6), "Segment">>,
       <<"system", load_addr(7), "Task">>,
       <<"vcpu", load_addr(8), "Task">>,
       <<"vm", load_addr(9), "Task">> >>

\* The number a word stands for.
RECURSIVE Num(_)
Num(w) == IF w = {} THEN 0
          ELSE CHOOSE n \in {2 ^ b + Num(w \ {b}) :
                                 b \in {CHOOSE x \in w : TRUE}} : TRUE

\* The place of the frame at hpa among the frames from 64 MiB on.
FrameNo(hpa) == (Num(hpa) - Num(ALLOC_BASE)) \div 4096

\* The PT_LOAD headers of load: the assertions on each vm_range, and the
\* page ranges V4KA::new(vm.start)..V4KA::new_round_up(vm.end).
vm_ranges(headers) ==
    [msg |-> IF \E k \in DOMAIN headers : And(headers[k][1], 0..11) # {}
             THEN "assertion left == right failed"
             ELSE IF \E k \in DOMAIN headers :
                         ~Lt(headers[k][1], headers[k][2])
             THEN "assertion failed: vm.start < vm.end"
             ELSE "",
     regions |-> [k \in DOMAIN headers |->
                      <<headers[k][1], new_round_up(1, headers[k][2])>>]]

\* A panic of the call S with the message msg.
Panic(S, msg) == Stop(Err(S, msg), "panic")

\* One turn of the loop of main over BINARY_TABLE: archive.extract, and
\* load with a bump allocator over the region at addr.
load_binary(m, meta, bin) ==
    CHOOSE r \in
        {IF ~bin.extract THEN [S |-> Panic(S, "cannot extract elf"), pf |-> {}]
         ELSE IF ~bin.elf THEN [S |-> Panic(S, "cannot parse elf"), pf |-> {}]
         ELSE IF h.msg # "" THEN [S |-> Panic(S, h.msg), pf |-> {}]
         ELSE load(S, h.regions, bin.filesz, bin.perm, meta[3] = "Task") :
             S \in {Call(m, FrameNo(meta[2]), MaxAlloc,
                         "failed to allocatoe page")},
             h \in {vm_ranges(bin.headers)}} : TRUE

\* clear_binary_load_region: the frames of all the regions are zeroed.
clear_binary_load_region(m) ==
    [pa \in {x \in DOMAIN m :
                 Lt(x, load_addr(0)) \/ ~Lt(x, load_addr(Len(BINARY_TABLE)))}
        |-> m[pa]]

\* print_panic: what the panic handler writes to the console.
print_panic(info) ==
    <<"PANIC: ", "*************** [ Cut Here ] *************", info,
      "******************************************", "System halted.">>

\* A variant of the panic handler that returns to where the panic was
\* raised; C28 tells it from panic.
panic_resume(b, info) == [b EXCEPT !.out = @ \o print_panic(info)]

\* The panic handler of theon: print_panic, then loop {}.
panic(b, info) == [b EXCEPT !.pc = "panic", !.out = @ \o print_panic(info)]

NoImage == [fits |-> TRUE, bins |-> TRUE, archive |-> TRUE, bin |-> <<>>]

\* On entry to main.  i is the index of the loop over BINARY_TABLE, log
\* holds a record of each turn of it, out is the console.
NoBoot == [pc |-> "entry", img |-> NoImage, i |-> 0, log |-> <<>>, out |-> <<>>]

---------------------------------------------------------------------------
(* The bump allocator of theon/src/allocator.rs.  usize is USIZE_BITS wide *)
(* here, so that the checked additions can overflow.                       *)

USIZE_BITS == 16
USIZE_MAX == 2 ^ USIZE_BITS - 1

wrapping_add(a, b) == (a + b) % (USIZE_MAX + 1)

\* A variant of checked_add that loses its second operand; C14 tells it
\* from checked_add.
checked_add_lost(a, b) == [ok |-> a + b <= USIZE_MAX, v |-> a]

\* usize::checked_add: ok is FALSE on overflow.
checked_add(a, b) == [ok |-> a + b <= USIZE_MAX, v |-> a + b]

\* A variant of align_offset that takes every pointer for aligned; C15
\* tells it from align_offset.
align_offset_none(ptr, align) == 0

\* <*mut u8>::align_offset: the bytes from ptr up to the next multiple of
\* align.
align_offset(ptr, align) == (align - (ptr % align)) % align

\* The closure alloc_bytes gives to fetch_update, applied to current: the
\* offset it leaves in the captured variable and Some(next), None, or the
\* panic of an expect.
update(heap, current, align, size) ==
    CHOOSE r \in
        {IF ~offset.ok
         THEN [k |-> "panic", offset |-> 0, next |-> 0,
               msg |-> "alignment overflow"]
         ELSE IF ~next.ok
         THEN [k |-> "panic", offset |-> offset.v, next |-> 0,
               msg |-> "size overflow"]
         ELSE IF next.v <= heap.len
         THEN [k |-> "Some", offset |-> offset.v, next |-> next.v,
               msg |-> ""]
         ELSE [k |-> "None", offset |-> offset.v, next |-> 0, msg |-> ""] :
             <<offset, next>> \in
                 {<<x, checked_add(x.v, size)>> :
                      x \in {checked_add(
                                 current,
                                 align_offset(wrapping_add(heap.base, current),
                                              align))}}} : TRUE

\* A variant of the comparison of compare_exchange_weak that always
\* succeeds; C17 tells it from compare_exchange.
compare_exchange_blind(cursor, current) == TRUE

\* compare_exchange_weak stores only where the cursor is still the value
\* the closure was applied to.
compare_exchange(cursor, current) == cursor = current

\* The callers of alloc_bytes.
Threads == {1, 2}

Idle ==
    [pc |-> "idle", align |-> 0, size |-> 0, current |-> 0, seen |-> 0,
     retried |-> FALSE, f |-> [k |-> "None", offset |-> 0, next |-> 0, msg |-> ""]]

NoHeap == [base |-> 0, len |-> 0]

\* No allocator yet.
NoBump ==
    [made |-> FALSE, heap |-> NoHeap, cursor |-> 0,
     th |-> [t \in Threads |-> Idle], log |-> <<>>, calls |-> 0,
     halt |-> FALSE]

---------------------------------------------------------------------------
(* Starting the application processors: theon/src/x86_64/mp.rs.            *)

SIPI_VECTOR == 7
STATE_RUNNING == 1

\* The array main gives to start_aps: cpus()[i] has apic_id i and state 0.
\* The processor that runs start_aps is the bootstrap processor, whose
\* entry is the first; COUNT counts it from the start.
CPUs == 0..3
BSP == 0
APs == CPUs \ {BSP}

\* A variant of the order of start_aps that sends the INIT before the SIPI
\* page is set up; C19 tells it from start_aps_then.
start_aps_init_first(pc) ==
    CASE pc = "start_aps" -> "send_broadcast_init"
      [] pc = "send_broadcast_init" -> "setup_sipi_page"
      [] pc = "setup_sipi_page" -> "pause"
      [] pc = "pause" -> "send_broadcast_sipi"
      [] pc = "send_broadcast_sipi" -> "poll"
      [] pc = "poll" -> "second_sipi"
      [] pc = "second_sipi" -> "wait_for_aps"
      [] pc = "wait_for_aps" -> "done"

\* The statement that follows statement pc in start_aps, with
\* init_sipi_sipi and wait_for_aps inlined.
start_aps_then(pc) ==
    CASE pc = "start_aps" -> "setup_sipi_page"
      [] pc = "setup_sipi_page" -> "send_broadcast_init"
      [] pc = "send_broadcast_init" -> "pause"
      [] pc = "pause" -> "send_broadcast_sipi"
      [] pc = "send_broadcast_sipi" -> "poll"
      [] pc = "poll" -> "second_sipi"
      [] pc = "second_sipi" -> "wait_for_aps"
      [] pc = "wait_for_aps" -> "done"

\* Before start_aps is called.  log is what the bootstrap processor has
\* done, ap is where each application processor stands, window is the
\* set of CPUs whose state was RUNNING when the polling loop was left, obs
\* is the CPUs the second loop has examined, each with the state it loaded,
\* msg is the message of the panic.
NoMp ==
    [pc |-> "idle", delay |-> 0, waits |-> 0, i |-> 0, staged |-> FALSE,
     state |-> [c \in CPUs |-> 0], ap |-> [c \in APs |-> "reset"],
     count |-> 1, log |-> <<>>, window |-> {}, obs |-> <<>>, msg |-> "",
     S |-> FALSE, uart |-> <<>>]

\* A variant of the order of apmain that signals before it stores false to
\* S; C39 tells it from apmain_then.
apmain_signal_first(pc) ==
    CASE pc = "apmain" -> "println"
      [] pc = "println" -> "println2"
      [] pc = "println2" -> "signal_ap"
      [] pc = "signal_ap" -> "store"
      [] pc = "store" -> "hlt"

\* The statement that follows statement pc in apmain: the loop on S, the
\* two writes of panic_println, S.store(false), signal_ap, hlt.
apmain_then(pc) ==
    CASE pc = "apmain" -> "println"
      [] pc = "println" -> "println2"
      [] pc = "println2" -> "store"
      [] pc = "store" -> "signal_ap"
      [] pc = "signal_ap" -> "hlt"

\* A variant of signal_ap that leaves COUNT as it is; C40 tells it from
\* signal_ap.
signal_ap_none(count) == count

\* COUNT.fetch_add(1, Ordering::Release)
signal_ap(count) == count + 1

\* A variant of the test of the second loop that takes every CPU as not
\* running; C21 tells it from not_running.
not_running_any(st) == TRUE

\* cpu.state.load(SeqCst) != STATE_RUNNING
not_running(st) == st # STATE_RUNNING

\* A variant of the test of wait_for_aps that is met by any count; C22
\* tells it from rendezvous.
rendezvous_any(count) == TRUE

\* COUNT.load(Ordering::Acquire) as usize == cpus.len()
rendezvous(count) == count = Cardinality(CPUs)

\* cpus.iter().all(|cpu| cpu.state.load(SeqCst) == STATE_RUNNING)
all_running(state) == \A c \in CPUs : state[c] = STATE_RUNNING

---------------------------------------------------------------------------
(* Platform init: start of theon/src/x86_64/pc/init.rs, called by the      *)
(* callers Threads, one statement at a time.                               *)

\* Before any call of start: INITED is false, the tables are empty.  calls
\* counts the calls, panics those that ended in the panic, idt and gdt how
\* often the table was initialised.
NoPlat ==
    [INITED |-> FALSE, th |-> [t \in Threads |-> "idle"], calls |-> 0,
     panics |-> 0, idt |-> 0, gdt |-> 0]

\* AtomicBool::swap: the value is stored, the value before it is returned.
swap(flag, val) == [old |-> flag, new |-> val]

\* The opening of start by caller t: INITED.swap(false, SeqCst), and the
\* panic if it returns true.
start(p, t) ==
    CHOOSE q \in
        {[p EXCEPT !.INITED = x.new,
                   !.calls = @ + 1,
                   !.panics = IF x.old THEN @ + 1 ELSE @,
                   !.th[t] = IF x.old THEN "panic" ELSE "idt_init"] :
             x \in {swap(p.INITED, FALSE)}} : TRUE

\* The statement of start that follows statement pc.
start_then(pc) ==
    CASE pc = "idt_init" -> "idt_load"
      [] pc = "idt_load" -> "gdt_init"
      [] pc = "gdt_init" -> "gdt_load"
      [] pc = "gdt_load" -> "multiboot_init"
      [] pc = "multiboot_init" -> "returned"

\* The body of start
start_step(p, t) ==
    [p EXCEPT !.th[t] = start_then(@),
              !.idt = IF p.th[t] = "idt_init" THEN @ + 1 ELSE @,
              !.gdt = IF p.th[t] = "gdt_init" THEN @ + 1 ELSE @]

---------------------------------------------------------------------------
(* The address space the operations start from, and their arguments.       *)

\* Physical address of slot i of the table in frame f.
SlotAddr(f, i) == Add(f, Shl(Word(i), 3))

\* theon::VZERO, where low physical memory is mapped on entry to main.
HYPER_BASE == 47..63

BOOT_L3 == {13}
BOOT_L2 == {12, 13}

\* Slot 511 of the root is the self map.  The boot mapping at HYPER_BASE
\* holds a 1 GiB page (physical 0) and a 2 MiB page (physical 1 GiB).
InitMem ==
    LET inner == Or(PRESENT, WRITE)
        big == Or(inner, HUGE)
        m1 == PhysWrite(<<>>, SlotAddr(CR3, SELF_INDEX), Or(CR3, inner))
        m2 == PhysWrite(m1, SlotAddr(CR3, 256), Or(BOOT_L3, inner))
        m3 == PhysWrite(m2, SlotAddr(BOOT_L3, 0), big)
        m4 == PhysWrite(m3, SlotAddr(BOOT_L3, 1), Or(BOOT_L2, inner))
    IN  PhysWrite(m4, SlotAddr(BOOT_L2, 0), Or({30}, big))

VA_A == {22}                          \* 0x0000_0000_0040_0000
VA_A2 == {12, 22}                     \* 0x0000_0000_0040_1000
VA_E == 12..20                        \* 0x0000_0000_001F_F000
VA_B == {12}                          \* 0x0000_0000_0000_1000
VA_C == {13}                          \* 0x0000_0000_0000_2000
VA_G == Or(HYPER_BASE, {12, 14})      \* in the 1 GiB page
VA_M == Or(HYPER_BASE, {30, 12, 13})  \* in the 2 MiB page
\* A page of the boot mapping's slot that no big page covers.
VA_H == Or(HYPER_BASE, {21, 30})
VA_TOP == Or(41..63, 12..39)          \* 0xFFFF_FEFF_FFFF_F000
\* A page under the boot mapping's L4 entry whose L3 entry is not present.
VA_N == Or(HYPER_BASE, {31, 12})      \* 0xFFFF_8000_8000_1000

UserVAs == {VA_A, VA_B, VA_C}
BigVAs == {VA_G, VA_M}
WindowVAs ==
    {BASE_ADDRESS(L) : L \in 1..4} \cup {SIDE_BASE_ADDRESS(L) : L \in 1..4}
        \cup {Or(SIDE_BASE_ADDRESS(1), {12})}

F1 == Shl(Word(291), 12)              \* PF4K(0x123_000)
F2 == Shl(Word(2748), 12)             \* PF4K(0xABC_000)

Perms == BOOLEAN \X BOOLEAN \X BOOLEAN

\* The (frame, permissions, va) of the calls of map, with an allocator.
MapArgs ==
    {<<F2, <<TRUE, TRUE, FALSE>>, VA_A2>>, <<F1, <<TRUE, TRUE, FALSE>>, VA_B>>,
     <<F2, <<TRUE, FALSE, TRUE>>, VA_C>>, <<F2, <<FALSE, TRUE, TRUE>>, VA_B>>}
        \cup {<<F1, <<TRUE, TRUE, TRUE>>, va>> :
                  va \in {BASE_ADDRESS(1), BASE_ADDRESS(4), SIDE_BASE_ADDRESS(1)}}

\* The (frame, permissions, va) of the calls of map_leaf where pages are
\* also unmapped.
CoreLeafArgs ==
    {<<F1, <<TRUE, TRUE, TRUE>>, VA_A>>, <<F1, <<TRUE, FALSE, FALSE>>, VA_C>>,
     <<F1, <<TRUE, TRUE, TRUE>>, VA_G>>}

\* The (frame, permissions, va) of the calls of map_leaf.
LeafArgs ==
    {<<F1, p, VA_A>> : p \in Perms}
        \cup {<<F2, <<TRUE, TRUE, TRUE>>, VA_A>>,
              <<F2, <<TRUE, TRUE, FALSE>>, VA_B>>,
              <<F1, <<TRUE, FALSE, FALSE>>, VA_C>>}
        \cup {<<F1, <<TRUE, TRUE, TRUE>>, va>> :
                  va \in WindowVAs \cup BigVAs \cup {VA_TOP}}

UnmapVAs ==
    UserVAs \cup {VA_A2} \cup BigVAs
        \cup {BASE_ADDRESS(4), BASE_ADDRESS(1), SIDE_BASE_ADDRESS(1), VA_TOP}

\* A foreign root: the frame at 96 MiB.
SIDE1 == {25, 26}
\* A frame at 128 TiB, above bit 46.
SIDE47 == {47}
SideRoots == {SIDE1, CR3, SIDE47}

\* The slices of ranges given to make_ranges and make_shared_ranges.
RangeArgs ==
    {<< <<VA_B, VA_C>> >>,
     << <<VA_B, VA_C>>, <<VA_A, VA_A2>> >>,
     << <<VA_E, {12, 21}>> >>,
     << <<VA_B, VA_C>>, <<VA_H, Add(VA_H, PAGE_SIZE(1))>> >>,
     << <<VA_G, Add(VA_G, PAGE_SIZE(1))>> >>,
     << <<VA_B, VA_B>> >>,
     << <<SIDE_BASE_ADDRESS(1), Add(SIDE_BASE_ADDRESS(1), PAGE_SIZE(1))>> >>}

\* The page ranges of the loadable sections of the binaries that are loaded.
LoadArgs ==
    {<< <<VA_B, VA_C>> >>,
     << <<VA_H, Add(VA_H, PAGE_SIZE(1))>> >>,
     << <<VA_A, Add(VA_A2, PAGE_SIZE(1))>> >>,
     << <<VA_B, VA_C>>, <<VA_H, Add(VA_H, PAGE_SIZE(1))>> >>}

LoadPerms == {<<TRUE, TRUE, FALSE>>, <<TRUE, FALSE, TRUE>>}

\* The boot images main is entered with.  In Own each binary has a header
\* of half a page in a 512 GiB slot of its own, in Shared the headers of all
\* binaries are pages of the first slot.
\* File sizes of headers: none, half a page, a page, a page and 904 bytes,
\* three pages.
FileSizes == {0, 2048, 4096, 5000, 12288}
HalfPage == CHOOSE n \in FileSizes : n = 2048
PageAndTail == CHOOSE n \in FileSizes : n = 5000
OwnVA(i) == Or(Shl(Word(i + 1), 39), {12})
SharedVA(i) == Shl(Word(i + 1), 12)
Binary(va) ==
    [extract |-> TRUE, elf |-> TRUE, headers |-> << <<va, Add(va, {11})>> >>,
     filesz |-> <<HalfPage>>, perm |-> <<TRUE, FALSE, TRUE>>]
Own == [NoImage EXCEPT !.bin = [i \in 1..10 |-> Binary(OwnVA(i - 1))]]
Shared == [NoImage EXCEPT !.bin = [i \in 1..10 |-> Binary(SharedVA(i - 1))]]
Images ==
    {Own, Shared,
     [Own EXCEPT !.fits = FALSE],
     [Own EXCEPT !.bins = FALSE],
     [Own EXCEPT !.archive = FALSE],
     [Own EXCEPT !.bin[3].extract = FALSE],
     [Own EXCEPT !.bin[2].elf = FALSE],
     [Own EXCEPT !.bin[4].headers =
                     << <<Or(OwnVA(3), {3}), Add(OwnVA(3), {11})>> >>],
     [Own EXCEPT !.bin[9].headers = << <<OwnVA(8), OwnVA(8)>> >>],
     [Own EXCEPT !.bin[2].headers = Own.bin[1].headers],
     [Own EXCEPT !.bin[1].headers =
                     << <<OwnVA(0), Add(OwnVA(0), {12, 13})>> >>,
                 !.bin[1].filesz = <<PageAndTail>>]}

\* The heaps a BumpAlloc is made over: 12 KiB at a 4 KiB-aligned address
\* and at an address that is only 4-aligned.
Heaps == {[base |-> 16384, len |-> 12288], [base |-> 16388, len |-> 12288]}

\* The (align, size) of the calls of alloc_bytes.
BumpArgs == {<<4096, 4096>>, <<8, 100>>, <<1, USIZE_MAX>>}

\* The page ranges of the headers of the binaries load copies in: three
\* pages and one page where the boot mapping has tables, a page of a slot
\* with no tables, two headers, and a page that the 2 MiB page of the boot
\* mapping covers.
CopyArgs ==
    {<< <<VA_H, Add(VA_H, {12, 13})>> >>,
     << <<VA_B, VA_C>> >>,
     << <<VA_H, Add(VA_H, PAGE_SIZE(1))>>,
        <<Add(VA_H, {13}), Add(VA_H, {12, 13})>> >>,
     << <<VA_M, Add(VA_M, PAGE_SIZE(1))>> >>}

\* The frames the region of a binary has left: few, and enough for every
\* page of CopyArgs.
CopyBudgets == {2, MaxAlloc}

\* The ranges <<start, end>> given to share_range: single pages and
\* tables of each size, a range under the 1 GiB page, ranges of two sizes,
\* an empty range and one that reaches into the side-map window.
ShareArgs ==
    {<<VA_B, VA_C>>,
     <<VA_A, VA_A2>>,
     <<{}, {21}>>,
     <<VA_E, {22}>>,
     <<HYPER_BASE, Or(HYPER_BASE, {39})>>,
     <<HYPER_BASE, Or(HYPER_BASE, {30})>>,
     <<Or(HYPER_BASE, {30}), Or(HYPER_BASE, {30, 21})>>,
     <<Or(HYPER_BASE, {21}), Or(HYPER_BASE, {22})>>,
     <<HYPER_BASE, Or(HYPER_BASE, {30, 21})>>,
     <<VA_B, VA_B>>,
     <<SIDE_BASE_ADDRESS(1), Add(SIDE_BASE_ADDRESS(1), PAGE_SIZE(1))>>}

\* How many frames an allocator callback hands out before it fails.
Budgets == {0, 1, 2, MaxAlloc}

\* Offsets within a page at which a translation is read back.
Offsets == {{}, {8}, 0..11}

TranslateVAs ==
    UserVAs \cup {VA_A2} \cup BigVAs \cup {BASE_ADDRESS(4), VA_TOP, VA_N}

\* What is kept of a call: the operation, its arguments (va, frame,
\* permissions <<r, w, x>>, ranges), its result, and the memory and the
\* allocator cursor it started from.
Rec(op, va, f, perm, rs, res, err, ret, pre, pn, tlb) ==
    [op |-> op, va |-> va, f |-> f, perm |-> perm, rs |-> rs, res |-> res,
     err |-> err, ret |-> ret, pre |-> pre, pn |-> pn, tlb |-> tlb]

NoPerm == <<FALSE, FALSE, FALSE>>
NoCall == Rec("none", {}, {}, NoPerm, <<>>, "Ok", "", None, <<>>, 0, "none")

\* The last call of a function of the PTE, page-address and Level types:
\* its name, its arguments a and b, how it ended and what it returned.
NoCalc == [op |-> "none", a |-> {}, b |-> {}, res |-> "Ok", out |-> <<>>]

Init ==
    /\ mem = InitMem
    /\ nalloc = 0
    /\ status = "run"
    /\ last = NoCall
    /\ prev = NoCall
    /\ bump = NoBump
    /\ mp = NoMp
    /\ plat = NoPlat
    /\ boot = NoBoot
    /\ calc = NoCalc

\* A call is made either with no record of the call before it, or right
\* after a call that returned Ok, whose record is then kept in prev.
Fresh == status = "run" /\ last.op = "none"
After(ops) ==
    /\ status = "run"
    /\ last.op \in ops
    /\ last.res = "Ok"
    /\ prev.op = "none"

\* What a finished call leaves.  A panic or a page fault halts the machine,
\* and so does an Err: every caller in the repository expects Ok
\* (theon/src/main.rs:258, :275; node/src/x86_64/gdt.rs:23).
Finish(S, op, va, f, perm, rs, ret) ==
    /\ mem' = S.mem
    /\ nalloc' = S.nalloc
    /\ status' = IF S.res = "run" THEN "run" ELSE "halt"
    /\ last' = Rec(op, va, f, perm, rs, IF S.res = "run" THEN "Ok" ELSE S.res,
                   S.err, IF S.res = "run" THEN ret ELSE None, mem, nalloc,
                   S.tlb)
    /\ prev' = last
    /\ UNCHANGED <<bump, mp, plat, boot, calc>>

Map ==
    /\ Fresh
    /\ \E a \in MapArgs, b \in Budgets :
          \E S \in {map(Call(mem, nalloc, b, "failed to allocate"), a[1],
                        page_perm_flags(a[2][1], a[2][2], a[2][3]), a[3])} :
              Finish(S, "map", a[3], a[1], a[2], <<>>, None)

\* map of a page that a big page of the boot mapping covers.
MapOver ==
    /\ Fresh
    /\ \E va \in BigVAs, b \in {0, MaxAlloc} :
          \E S \in {map(Call(mem, nalloc, b, "failed to allocate"), F1,
                        page_perm_flags(TRUE, TRUE, TRUE), va)} :
              Finish(S, "map", va, F1, <<TRUE, TRUE, TRUE>>, <<>>, None)

MapLeafOf(args) ==
    \E a \in args :
        /\ Fresh \/ (After({"map_leaf"}) /\ last.va = a[3])
        /\ \E S \in {map_leaf(mem, nalloc, a[1], a[3], a[2][1], a[2][2],
                               a[2][3])} :
               Finish(S, "map_leaf", a[3], a[1], a[2], <<>>, None)

MapLeaf == MapLeafOf(LeafArgs)
MapLeafCore == MapLeafOf(CoreLeafArgs)

Unmap ==
    /\ Fresh
    /\ \E va \in UnmapVAs :
          \E S \in {unmap(Call(mem, nalloc, 0, ""), va)} :
              Finish(S, "unmap", va, {}, NoPerm, <<>>, None)

\* translate reads only; a page fault in its walk halts the machine.
Translate ==
    \E va \in TranslateVAs, off \in Offsets :
        /\ \/ Fresh /\ off = {}
           \/ After({"map", "map_leaf", "unmap"}) /\ last.va = va
        /\ \E t \in {translate(mem, Or(va, off))} :
               \E S \in {IF t = Fault
                         THEN Stop(Call(mem, nalloc, 0, ""), "fault")
                         ELSE Call(mem, nalloc, 0, "")} :
                   Finish(S, "translate", Or(va, off), {}, NoPerm, <<>>, t)

MakeRanges ==
    /\ Fresh
    /\ \E rs \in RangeArgs, b \in Budgets :
          \E S \in {make_ranges(Call(mem, nalloc, b, "failed to allocate"),
                                rs)} :
              Finish(S, "make_ranges", {}, {}, NoPerm, rs, None)

MakeSharedRanges ==
    /\ Fresh
    /\ \E rs \in RangeArgs, side \in {SIDE1}, b \in Budgets :
          \E r \in {make_shared_ranges(
                        Call(mem, nalloc, b, "failed to allocate"), rs, side)} :
              Finish(r.S, "make_shared_ranges", {}, side, NoPerm, rs,
                     Some(r.pf))

\* share_range into the root at SIDE1; its allocator callback hands out
\* the frames of the region of the third binary (from 128 MiB on), which
\* nothing else has used before the call.  It is the last call that is
\* followed.
ShareRange ==
    /\ Fresh
    /\ \E rg \in ShareArgs, b \in Budgets :
          \E r \in {share_range(
                        Call(mem, 2 * REGION_STRIDE, b,
                             "failed to allocate"), rg, SIDE1)} :
              /\ mem' = r.S.mem
              /\ nalloc' = r.S.nalloc
              /\ status' = IF r.S.res = "run" THEN "shared" ELSE "halt"
              /\ last' = Rec("share_range", {}, SIDE1, NoPerm, <<rg>>,
                             IF r.S.res = "run" THEN "Ok" ELSE r.S.res,
                             r.S.err,
                             IF r.S.res = "run" THEN Some(r.pf) ELSE None,
                             mem, nalloc, r.S.tlb)
              /\ prev' = last
              /\ calc' = [op |-> "share_range", a |-> rg[1], b |-> rg[2],
                          res |-> IF r.S.res = "run" THEN "Ok" ELSE r.S.res,
                          out |-> r.S.ev]
              /\ UNCHANGED <<bump, mp, plat, boot>>

SideLoad ==
    /\ Fresh
    /\ \E pf \in SideRoots :
          \E S \in {side_load(Call(mem, nalloc, 0, ""), pf)} :
              Finish(S, "side_load", {}, pf, NoPerm, <<>>, None)

UnloadSide ==
    /\ Fresh \/ After({"side_load"})
    /\ \E r \in {unload_side(Call(mem, nalloc, 0, ""))} :
          Finish(r.S, "unload_side", {}, {}, NoPerm, <<>>, Some(r.pf))

UnmapRootRanges ==
    /\ Fresh
    /\ \E rs \in RangeArgs :
          \E S \in {unmap_root_ranges(Call(mem, nalloc, 0, ""), rs)} :
              Finish(S, "unmap_root_ranges", {}, {}, NoPerm, rs, None)

\* load of the first binary of BINARY_TABLE, whose region starts at
\* load_addr(0) = ALLOC_BASE and is all free.
Load ==
    /\ Fresh
    /\ nalloc = 0
    /\ \E rs \in LoadArgs, perm \in LoadPerms, task \in BOOLEAN :
          \E r \in {load(Call(mem, nalloc, MaxAlloc,
                              "failed to allocatoe page"), rs,
                         [k \in DOMAIN rs |-> HalfPage], perm, task)} :
              Finish(r.S, IF task THEN "load_task" ELSE "load_segment", {},
                     r.pf, perm, rs, Some(r.pf))

\* load of a binary whose headers have the page ranges rs, the file sizes
\* sizes and the permissions perm, into a region that
\* clear_binary_load_region has zeroed.
LoadFile ==
    /\ Fresh
    /\ nalloc = 0
    /\ \E rs \in CopyArgs, sz \in FileSizes, perm \in Perms,
          task \in BOOLEAN, b \in CopyBudgets :
          \E r \in {load(Call(clear_binary_load_region(mem), nalloc, b,
                              "failed to allocatoe page"), rs,
                         [k \in DOMAIN rs |-> sz], perm, task)} :
              /\ mem' = r.S.mem
              /\ nalloc' = r.S.nalloc
              /\ status' = IF r.S.res = "run" THEN "run" ELSE "halt"
              /\ last' = Rec(IF task THEN "load_task" ELSE "load_segment",
                             {}, r.pf, perm, rs,
                             IF r.S.res = "run" THEN "Ok" ELSE r.S.res,
                             r.S.err,
                             IF r.S.res = "run" THEN Some(r.pf) ELSE None,
                             mem, nalloc, r.S.tlb)
              /\ prev' = last
              /\ calc' = [op |-> "load", a |-> sz, b |-> {},
                          res |-> IF r.S.res = "run" THEN "Ok" ELSE r.S.res,
                          out |-> r.S.ev]
              /\ UNCHANGED <<bump, mp, plat, boot>>

\* The record of the calls made so far is dropped.
Forget ==
    /\ status = "run"
    /\ last.op # "none"
    /\ last' = NoCall
    /\ prev' = NoCall
    /\ UNCHANGED <<mem, nalloc, status, bump, mp, plat, boot, calc>>

\* BumpAlloc::new over a heap.
BumpNew ==
    /\ ~bump.made
    /\ \E h \in Heaps : bump' = [NoBump EXCEPT !.made = TRUE, !.heap = h]
    /\ UNCHANGED <<mem, nalloc, status, last, prev, mp, plat, boot, calc>>

\* The closure is applied to what was read of the cursor: the caller goes
\* on to the compare-exchange, returns None, or panics.
Applied(t, current, retried) ==
    \E f \in {update(bump.heap, current, bump.th[t].align,
                     bump.th[t].size)} :
        bump' = [bump EXCEPT
                    !.th[t].current = current,
                    !.th[t].seen = Len(bump.log),
                    !.th[t].retried = retried,
                    !.th[t].f = f,
                    !.th[t].pc = CASE f.k = "Some" -> "cas"
                                   [] f.k = "None" -> "ret"
                                   [] OTHER -> "panic",
                    !.halt = f.k = "panic"]

\* A caller enters alloc_bytes(align, size).
AllocBytes ==
    /\ bump.made /\ ~bump.halt /\ bump.calls < MaxCalls
    /\ \E t \in Threads, a \in BumpArgs :
          /\ bump.th[t].pc = "idle"
          /\ bump' = [bump EXCEPT !.th[t] = [Idle EXCEPT !.pc = "load",
                                                          !.align = a[1],
                                                          !.size = a[2]],
                                   !.calls = @ + 1]
    /\ UNCHANGED <<mem, nalloc, status, last, prev, mp, plat, boot, calc>>

\* fetch_update loads the cursor and applies the closure.
AllocLoad ==
    /\ ~bump.halt
    /\ \E t \in Threads :
          /\ bump.th[t].pc = "load"
          /\ Applied(t, bump.cursor, FALSE)
    /\ UNCHANGED <<mem, nalloc, status, last, prev, mp, plat, boot, calc>>

\* compare_exchange_weak succeeds: the cursor moves to next and the
\* region [offset, next) is the caller's.
AllocSwap ==
    /\ ~bump.halt
    /\ \E t \in Threads :
          /\ bump.th[t].pc = "cas"
          /\ compare_exchange(bump.cursor, bump.th[t].current)
          /\ bump' = [bump EXCEPT
                         !.cursor = bump.th[t].f.next,
                         !.th[t].pc = "ret",
                         !.log = Append(@, [t |-> t,
                                            align |-> bump.th[t].align,
                                            offset |-> bump.th[t].f.offset,
                                            size |-> bump.th[t].size])]
    /\ UNCHANGED <<mem, nalloc, status, last, prev, mp, plat, boot, calc>>

\* compare_exchange_weak fails, because the cursor has moved or for no
\* reason: the closure is applied to the value the exchange read.
AllocRetry ==
    /\ ~bump.halt
    /\ \E t \in Threads :
          /\ bump.th[t].pc = "cas"
          /\ Applied(t, bump.cursor, TRUE)
    /\ UNCHANGED <<mem, nalloc, status, last, prev, mp, plat, boot, calc>>

\* alloc_bytes returns, Some of the slice at offset or None.
AllocReturn ==
    /\ ~bump.halt
    /\ \E t \in Threads :
          /\ bump.th[t].pc = "ret"
          /\ bump' = [bump EXCEPT !.th[t].pc = "idle"]
    /\ UNCHANGED <<mem, nalloc, status, last, prev, mp, plat, boot, calc>>

\* The bootstrap processor goes from statement pc to the next.
Step(pc, ev) ==
    [mp EXCEPT !.pc = start_aps_then(pc), !.log = Append(@, ev)]

StartAps ==
    /\ mp.pc = "idle"
    /\ mp' = [mp EXCEPT !.pc = start_aps_then("start_aps")]
    /\ UNCHANGED <<mem, nalloc, status, last, prev, bump, plat, boot, calc>>

\* setup_sipi_page: the stub is copied and the pointer to cpus and its
\* length are written at the end of the page.
SetupSipiPage ==
    /\ mp.pc = "setup_sipi_page"
    /\ mp' = [Step("setup_sipi_page", <<"stage">>) EXCEPT !.staged = TRUE]
    /\ UNCHANGED <<mem, nalloc, status, last, prev, bump, plat, boot, calc>>

\* send_broadcast_init: every processor but this one waits for a SIPI.
SendBroadcastInit ==
    /\ mp.pc = "send_broadcast_init"
    /\ mp' = [Step("send_broadcast_init", <<"init">>) EXCEPT
                 !.ap = [c \in APs |-> "wait_sipi"]]
    /\ UNCHANGED <<mem, nalloc, status, last, prev, bump, plat, boot, calc>>

\* pause(Duration::from_millis(10))
Pause ==
    /\ mp.pc = "pause"
    /\ mp' = Step("pause", <<"pause_10ms">>)
    /\ UNCHANGED <<mem, nalloc, status, last, prev, bump, plat, boot, calc>>

\* A processor that waits for a SIPI starts at the page of the vector; it
\* is lost if the stub is not there.
Started(ap, c) ==
    IF ap[c] = "wait_sipi" THEN (IF mp.staged THEN "started" ELSE "lost")
    ELSE ap[c]

\* send_broadcast_sipi(SIPI_VECTOR)
SendBroadcastSipi ==
    /\ mp.pc = "send_broadcast_sipi"
    /\ mp' = [Step("send_broadcast_sipi", <<"sipi_all", SIPI_VECTOR>>) EXCEPT
                 !.ap = [c \in APs |-> Started(mp.ap, c)]]
    /\ UNCHANGED <<mem, nalloc, status, last, prev, bump, plat, boot, calc>>

\* One turn of `for _delay in 0..200`: init_sipi_sipi returns if every
\* state is RUNNING, and pauses for a microsecond otherwise; after the
\* last turn it goes on to the second SIPIs.
Poll ==
    /\ mp.pc = "poll"
    /\ mp' = [mp EXCEPT
                 !.log = IF mp.delay = 0 THEN Append(@, <<"poll">>) ELSE @,
                 !.delay = IF mp.delay < MaxPolls THEN @ + 1 ELSE @,
                 !.pc = IF mp.delay = MaxPolls
                        THEN start_aps_then("poll")
                        ELSE IF all_running(mp.state)
                        THEN start_aps_then("second_sipi")
                        ELSE @,
                 !.window = IF mp.delay = MaxPolls \/ all_running(mp.state)
                            THEN {c \in CPUs : mp.state[c] = STATE_RUNNING}
                            ELSE @]
    /\ UNCHANGED <<mem, nalloc, status, last, prev, bump, plat, boot, calc>>

\* One turn of `for cpu in cpus`: send_sipi(cpu.apic_id, SIPI_VECTOR) if
\* the state of cpu is not RUNNING.
SecondSipi ==
    /\ mp.pc = "second_sipi"
    /\ mp' = IF mp.i \notin CPUs
              THEN [mp EXCEPT !.pc = start_aps_then("second_sipi")]
              ELSE IF ~not_running(mp.state[mp.i])
              THEN [mp EXCEPT !.i = @ + 1,
                              !.obs = Append(@, <<mp.i, mp.state[mp.i]>>)]
              ELSE [mp EXCEPT
                       !.i = @ + 1,
                       !.obs = Append(@, <<mp.i, mp.state[mp.i]>>),
                       !.log = Append(@, <<"sipi", mp.i, SIPI_VECTOR>>),
                       !.ap = [c \in APs |-> IF c = mp.i
                                             THEN Started(mp.ap, c)
                                             ELSE mp.ap[c]]]
    /\ UNCHANGED <<mem, nalloc, status, last, prev, bump, plat, boot, calc>>

\* One turn of the loop of wait_for_aps: it returns if COUNT is the number
\* of CPUs, and panics after the last turn.
WaitForAps ==
    /\ mp.pc = "wait_for_aps"
    /\ mp' = [mp EXCEPT
                 !.log = IF mp.waits = 0 THEN Append(@, <<"wait">>) ELSE @,
                 !.waits = IF mp.waits < MaxWaits THEN @ + 1 ELSE @,
                 !.pc = IF mp.waits = MaxWaits THEN "panic"
                        ELSE IF rendezvous(mp.count)
                        THEN start_aps_then("wait_for_aps")
                        ELSE @,
                 !.msg = IF mp.waits = MaxWaits THEN "APs not started"
                         ELSE @]
    /\ UNCHANGED <<mem, nalloc, status, last, prev, bump, plat, boot, calc>>

\* An application processor that was started finds its entry and sets the
\* RUNNING bit of its state.
ApRun ==
    /\ \E c \in APs :
          /\ mp.ap[c] = "started"
          /\ mp' = [mp EXCEPT !.ap[c] = "running",
                              !.state[c] = STATE_RUNNING]
    /\ UNCHANGED <<mem, nalloc, status, last, prev, bump, plat, boot, calc>>

\* apmain: signal_ap, then hlt.
ApSignal ==
    /\ \E c \in APs :
          /\ mp.ap[c] = "running"
          /\ mp' = [mp EXCEPT !.ap[c] = "up", !.count = @ + 1]
    /\ UNCHANGED <<mem, nalloc, status, last, prev, bump, plat, boot, calc>>

\* An application processor enters apmain.
ApEnter(c) ==
    /\ mp.ap[c] = "reset"
    /\ mp' = [mp EXCEPT !.ap[c] = "apmain"]
    /\ UNCHANGED <<mem, nalloc, status, last, prev, bump, plat, boot, calc>>

\* One turn of the loop of apmain: S.compare_exchange(false, true); the
\* loop is left where the exchange succeeded, and relax() follows where it
\* did not.
ApAcquire(c) ==
    /\ mp.ap[c] = "apmain"
    /\ mp' = IF compare_exchange(mp.S, FALSE)
              THEN [mp EXCEPT !.S = TRUE, !.ap[c] = apmain_then("apmain")]
              ELSE mp
    /\ UNCHANGED <<mem, nalloc, status, last, prev, bump, plat, boot, calc>>

\* panic_println!("Hello from {}", cpu): write_fmt writes the text and then
\* the number and the newline to the UART.
ApPrint(c) ==
    /\ mp.ap[c] \in {"println", "println2"}
    /\ mp' = [mp EXCEPT
                 !.uart = Append(@, <<c, IF mp.ap[c] = "println"
                                         THEN "Hello from " ELSE "id">>),
                 !.ap[c] = apmain_then(mp.ap[c])]
    /\ UNCHANGED <<mem, nalloc, status, last, prev, bump, plat, boot, calc>>

\* S.store(false, Ordering::Release)
ApRelease(c) ==
    /\ mp.ap[c] = "store"
    /\ mp' = [mp EXCEPT !.S = FALSE, !.ap[c] = apmain_then("store")]
    /\ UNCHANGED <<mem, nalloc, status, last, prev, bump, plat, boot, calc>>

\* mp::signal_ap(cpu); the hlt follows.
ApCount(c) ==
    /\ mp.ap[c] = "signal_ap"
    /\ mp' = [mp EXCEPT !.count = signal_ap(@),
                        !.ap[c] = apmain_then("signal_ap")]
    /\ UNCHANGED <<mem, nalloc, status, last, prev, bump, plat, boot, calc>>

\* A step of the application processor c in apmain.
ApStep(c) ==
    \/ ApEnter(c)
    \/ ApAcquire(c)
    \/ ApPrint(c)
    \/ ApRelease(c)
    \/ ApCount(c)

\* A caller calls start.
StartCall ==
    /\ plat.calls < MaxCalls
    /\ \E t \in Threads :
          /\ plat.th[t] \in {"idle", "returned"}
          /\ plat' = start(plat, t)
    /\ UNCHANGED <<mem, nalloc, status, last, prev, bump, mp, boot, calc>>

\* A caller that is in start executes its next statement.
StartStep ==
    /\ \E t \in Threads :
          /\ plat.th[t] \notin {"idle", "returned", "panic"}
          /\ plat' = start_step(plat, t)
    /\ UNCHANGED <<mem, nalloc, status, last, prev, bump, mp, boot, calc>>

\* main calls start; the bootstrap processor is caller 1.
MainStart ==
    /\ boot.pc = "entry"
    /\ \E q \in {start(plat, 1)} :
          /\ plat' = q
          /\ boot' = IF q.th[1] = "panic" THEN panic(boot, "double init")
                     ELSE [boot EXCEPT !.pc = "start"]
    /\ UNCHANGED <<mem, nalloc, status, last, prev, bump, mp, calc>>

MainStartStep ==
    /\ boot.pc = "start"
    /\ plat.th[1] \notin {"idle", "returned", "panic"}
    /\ plat' = start_step(plat, 1)
    /\ UNCHANGED <<mem, nalloc, status, last, prev, bump, mp, boot, calc>>

\* main from multiboot.info() to clear_binary_load_region().
MainArchive ==
    /\ boot.pc = "start"
    /\ plat.th[1] = "returned"
    /\ \E img \in Images :
          \E b \in {[boot EXCEPT !.img = img]} :
              /\ boot' = IF ~img.fits
                         THEN panic(b, "assertion failed: theon_fits(&regions)")
                         ELSE IF ~img.bins
                         THEN panic(b, "found bin.a in modules")
                         ELSE IF ~img.archive
                         THEN panic(b, "cannot parse bin.a")
                         ELSE [b EXCEPT !.pc = "load"]
              /\ mem' = IF img.fits /\ img.bins /\ img.archive
                        THEN clear_binary_load_region(mem) ELSE mem
    /\ UNCHANGED <<nalloc, status, last, prev, bump, mp, plat, calc>>

\* One turn of `for &(name, addr, typ) in BINARY_TABLE`.  A page fault in
\* load is entered again and again, the trap handler returns to the
\* instruction that raised it.
LoadBinary ==
    /\ boot.pc = "load"
    /\ \E meta \in {BINARY_TABLE[boot.i + 1]} :
          \E r \in {load_binary(mem, meta, boot.img.bin[boot.i + 1])} :
              \E b \in {[boot EXCEPT
                              !.log = Append(@,
                                  [i |-> boot.i, typ |-> meta[3],
                                   addr |-> meta[2], ev |-> r.S.ev,
                                   root |-> r.pf, res |-> r.S.res])]} :
                  /\ mem' = r.S.mem
                  /\ nalloc' = r.S.nalloc
                  /\ status' = IF r.S.res = "run" THEN "run" ELSE "halt"
                  /\ boot' = IF r.S.res = "panic" THEN panic(b, r.S.err)
                             ELSE IF r.S.res = "fault"
                             THEN [b EXCEPT !.pc = "fault"]
                             ELSE [b EXCEPT
                                      !.i = @ + 1,
                                      !.pc = IF boot.i + 1 = Len(BINARY_TABLE)
                                             THEN "int3" ELSE "load"]
    /\ UNCHANGED <<last, prev, bump, mp, plat, calc>>

\* int3: the trap is dispatched and returns.
MainInt3 ==
    /\ boot.pc = "int3"
    /\ boot' = [boot EXCEPT !.pc = "start_aps"]
    /\ UNCHANGED <<mem, nalloc, status, last, prev, bump, mp, plat, calc>>

\* mp::start_aps(cpus())
MainStartAps ==
    /\ boot.pc = "start_aps"
    /\ mp.pc = "idle"
    /\ mp' = [mp EXCEPT !.pc = start_aps_then("start_aps")]
    /\ boot' = [boot EXCEPT !.pc = "in_start_aps"]
    /\ UNCHANGED <<mem, nalloc, status, last, prev, bump, plat, calc>>

\* The panic of wait_for_aps reaches the panic handler.
MainPanic ==
    /\ boot.pc = "in_start_aps"
    /\ mp.pc = "panic"
    /\ boot' = panic(boot, mp.msg)
    /\ UNCHANGED <<mem, nalloc, status, last, prev, bump, mp, plat, calc>>

\* start_aps has returned: panic!("main: trapstubs = ..").
MainReturn ==
    /\ boot.pc = "in_start_aps"
    /\ mp.pc = "done"
    /\ boot' = panic(boot, "main: trapstubs")
    /\ UNCHANGED <<mem, nalloc, status, last, prev, bump, mp, plat, calc>>

\* Mapping pages and reading the translations back.
Next ==
    \/ Map
    \/ MapLeaf
    \/ Translate
    \/ Forget

Spec == Init /\ [][Next]_vars

\* Mapping and unmapping pages.
NextUnmap ==
    \/ Map
    \/ MapLeafCore
    \/ Unmap
    \/ Translate
    \/ Forget

SpecUnmap == Init /\ [][NextUnmap]_vars

\* The construction of address spaces: ranges and the side-load slot.
NextRanges ==
    \/ MakeRanges
    \/ MakeSharedRanges
    \/ SideLoad
    \/ UnloadSide
    \/ Forget

SpecRanges == Init /\ [][NextRanges]_vars

\* Mapping pages that are mapped already.
NextCopy ==
    \/ LoadFile
    \/ Translate
    \/ Forget

SpecCopy == Init /\ [][NextCopy]_vars

NextOver ==
    \/ Map
    \/ MapOver
    \/ Translate
    \/ Forget

SpecOver == Init /\ [][NextOver]_vars

\* Sharing ranges of the current address space into a side-loaded one.
NextShare ==
    \/ MakeRanges
    \/ MapLeafCore
    \/ ShareRange
    \/ MakeSharedRanges
    \/ Forget

SpecShare == Init /\ [][NextShare]_vars

\* The loader and the calls that flush the TLB.
NextLoad ==
    \/ Load
    \/ UnmapRootRanges
    \/ SideLoad
    \/ UnloadSide
    \/ Translate
    \/ Forget

SpecLoad == Init /\ [][NextLoad]_vars

\* The bump allocator and its concurrent callers.
NextBump ==
    \/ BumpNew
    \/ AllocBytes
    \/ AllocLoad
    \/ AllocSwap
    \/ AllocRetry
    \/ AllocReturn

SpecBump == Init /\ [][NextBump]_vars

\* The bootstrap processor in start_aps and the application processors.
NextMp ==
    \/ StartAps
    \/ SetupSipiPage
    \/ SendBroadcastInit
    \/ Pause
    \/ SendBroadcastSipi
    \/ Poll
    \/ SecondSipi
    \/ WaitForAps
    \/ ApRun
    \/ ApSignal

SpecMp == Init /\ [][NextMp]_vars

\* The application processors in apmain.
NextAp ==
    \/ \E c \in APs : ApEnter(c)
    \/ \E c \in APs : ApAcquire(c)
    \/ \E c \in APs : ApPrint(c)
    \/ \E c \in APs : ApRelease(c)
    \/ \E c \in APs : ApCount(c)

SpecAp == Init /\ [][NextAp]_vars

\* Each application processor goes on executing.
SpecApLive == SpecAp /\ \A c \in APs : WF_vars(ApStep(c))

\* Platform init and its callers.
NextInit ==
    \/ StartCall
    \/ StartStep

SpecInit == Init /\ [][NextInit]_vars

\* main on the bootstrap processor, and the application processors.
NextMain ==
    \/ MainStart
    \/ MainStartStep
    \/ MainArchive
    \/ LoadBinary
    \/ MainInt3
    \/ MainStartAps
    \/ SetupSipiPage
    \/ SendBroadcastInit
    \/ Pause
    \/ SendBroadcastSipi
    \/ Poll
    \/ SecondSipi
    \/ WaitForAps
    \/ ApRun
    \/ ApSignal
    \/ MainPanic
    \/ MainReturn

SpecMain == Init /\ [][NextMain]_vars

---------------------------------------------------------------------------
(* Calls of the functions of PTE, of the page-address types and of Level.  *)

\* The frame addresses PTE::new is called with: aligned ones up to bit 51,
\* ones with low bits set, and ones with bits from 52 on.
Hpas ==
    {{}, {12}, F1, {46}, 12..46, {47}, {51}, 12..51, {12, 47}, {0}, {5, 12},
     {52}, {12, 63}}

\* The flag sets PTE::new is called with.
FlagSets ==
    {{}, PRESENT, Or(PRESENT, WRITE), Or(PRESENT, NX), Or(PRESENT, HUGE),
     Or(Or(PRESENT, WRITE), USER), NX, Or(WRITE, NX), PTEFlags_all,
     Or(Or(ACCESS, DIRTY), GLOBAL)}

\* The addresses the page-address types round.
RoundVAs ==
    {{}, {0}, {12}, 0..11, {0, 12}, {21}, {0, 21}, {30}, {1, 30}, {39},
     {0, 39}, 0..38, {63}, 0..63, 12..63, Or(12..63, {0}), 39..63,
     Or(39..63, {12}), Or(30..63, {3})}

\* The addresses Level::index and Level::pte_ref are called with.
IndexVAs ==
    {{}, {12}, {21}, {30}, {39}, VA_A, VA_G, VA_M, VA_TOP, BASE_ADDRESS(4),
     SIDE_BASE_ADDRESS(4), BASE_ADDRESS(1), 0..63, {47}, {48}, 0..47,
     Or(HYPER_BASE, {30})}

\* PTE::new(hpa, flags), then pfa() and flags() of the entry.
PteNew ==
    \E hpa \in Hpas, fl \in FlagSets :
        /\ \E p \in {PTE_new(hpa, fl)} :
               calc' = [op |-> "PTE::new", a |-> hpa, b |-> fl,
                        res |-> IF p.ok THEN "Ok" ELSE "panic",
                        out |-> IF p.ok
                                THEN <<p.pte, pfa(p.pte), flags(p.pte)>>
                                ELSE <<>>]
        /\ UNCHANGED <<mem, nalloc, status, last, prev, bump, mp, plat, boot>>

\* new_round_down(va) and new_round_up(va) of the page-address type of
\* level L (V4KA, V2MA, V1GA, V512GA for L = 1 .. 4); new's assertion holds
\* of both results.
RoundPage ==
    \E L \in 1..4, va \in RoundVAs :
        /\ calc' = [op |-> "round", a |-> va, b |-> L, res |-> "Ok",
                    out |-> <<new_round_down(L, va), new_round_up(L, va)>>]
        /\ UNCHANGED <<mem, nalloc, status, last, prev, bump, mp, plat, boot>>

\* Level::index(va) and the address of Level::pte_ref(va).
IndexOf ==
    \E L \in 1..4, va \in IndexVAs :
        /\ calc' = [op |-> "index", a |-> va, b |-> L, res |-> "Ok",
                    out |-> <<index(L, va), pte_ref(L, va)>>]
        /\ UNCHANGED <<mem, nalloc, status, last, prev, bump, mp, plat, boot>>

NextCalc ==
    \/ PteNew
    \/ RoundPage
    \/ IndexOf

SpecCalc == Init /\ [][NextCalc]_vars

---------------------------------------------------------------------------
(* Properties of mapping, unmapping and translation.                       *)

\* The entry of va at level L as Level::entry loads it, through the self map.
EntryWord(m, L, va) == VirtRead(m, pte_ref(L, va))

\* The frame field of the architecture (bits 12..51) and the bits around it.
FrameBits(pte) == pte \cap (12..51)
FlagBits(pte) == pte \ (12..51)

InteriorFlags == Or(PRESENT, WRITE)

\* The flags a leaf is asked for: PRESENT iff r, WRITE iff w, NX iff not x.
LeafFlags(perm) ==
    {b \in {0, 1, 63} : \/ b = 0 /\ perm[1]
                        \/ b = 1 /\ perm[2]
                        \/ b = 63 /\ ~perm[3]}

\* va lies in one of the eight windows of the self map and the side map.
InWindow(va) ==
    \E L \in 1..4 :
        And(va, Not(0..(PAGE_SHIFT(5 - L) - 1)))
            \in {BASE_ADDRESS(L), SIDE_BASE_ADDRESS(L)}

\* The L4, L3 and L2 entries of va are present and none is a big page.
NonLeafPath(m, va) ==
    \A L \in 2..4 :
        /\ EntryWord(m, L, va).ok
        /\ 0 \in EntryWord(m, L, va).val
        /\ 7 \notin EntryWord(m, L, va).val

\* The frames of the tables of level L of the current address space, as the
\* processor walks them from the root; the self and side slots lead to no
\* table of a lower level.
RECURSIVE TableFrames(_, _)
TableFrames(m, L) ==
    IF L = 4 THEN {CR3}
    ELSE {FrameBits(m[pa]) :
              pa \in {x \in DOMAIN m :
                          /\ And(x, 12..63) \in TableFrames(m, L + 1)
                          /\ 0 \in m[x]
                          /\ 7 \notin m[x]
                          /\ L = 3 => And(x, 0..11) \notin
                                 {Shl(Word(SELF_INDEX), 3),
                                  Shl(Word(SIDE_INDEX), 3)}}}

\* One of the L4, L3 and L2 entries of va is missing.
Missing(m, va) ==
    \E L \in 2..4 : ~EntryWord(m, L, va).ok \/ 0 \notin EntryWord(m, L, va).val

\* The 4 KiB pages of the ranges rs.
RECURSIVE PagesOf(_, _)
PagesOf(addr, end) ==
    IF Lt(addr, end) THEN {addr} \cup PagesOf(Add(addr, {12}), end) ELSE {}

RangePages(rs) == UNION {PagesOf(rs[i][1], rs[i][2]) : i \in DOMAIN rs}

\* Slot 510 of the current root.
SideSlotAddr == SlotAddr(CR3, SIDE_INDEX)

\* Memory m agrees with memory o everywhere but at the physical word pa.
SameBut(m, o, pa) ==
    \A x \in (DOMAIN m \cup DOMAIN o) \ {pa} : PhysRead(m, x) = PhysRead(o, x)

\* C1: where the L4, L3 and L2 entries of va are present and no big page
\* and the L1 entry is not present, after map_leaf(f, va, r = true, w, x)
\* returned Ok, translate(va + off) is f + off, for every offset off within
\* the page and every w and x.
C1_MapTranslateRoundTrip ==
    (/\ last.op = "translate"
     /\ prev.op = "map_leaf"
     /\ prev.perm[1]
     /\ And(last.va, Not(MASK4K)) = prev.va
     /\ NonLeafPath(prev.pre, prev.va)
     /\ 0 \notin EntryWord(prev.pre, 1, prev.va).val)
        => /\ last.res = "Ok"
           /\ last.ret = Some(Add(prev.f, And(last.va, MASK4K)))

\* C1: map_leaf(PF4K(0x123_000), V4KA(0x40_0000), R, W, X) returned Ok and
\* translate(0x40_0100) gave HPA(0x123_100).
C1_Witness ==
    /\ last.op = "translate"
    /\ prev.op = "map_leaf"
    /\ prev.va = VA_A
    /\ prev.f = F1
    /\ prev.perm = <<TRUE, TRUE, TRUE>>
    /\ last.va = Or(VA_A, {8})
    /\ last.ret = Some(Or(F1, {8}))

\* C2: unmap(va) of a user page leaves the L4, L3 and L2 entries of va as
\* they were, and leaves the translation of every other page as it was.
C2_UnmapClearsOnlyLeaf ==
    (last.op = "unmap" /\ last.res = "Ok" /\ last.va \in UserVAs)
        => /\ \A L \in 2..4 :
                  EntryWord(mem, L, last.va) = EntryWord(last.pre, L, last.va)
           /\ \A va \in (UserVAs \cup {VA_A2}) \ {last.va} :
                  translate(mem, va) = translate(last.pre, va)

\* C3: translate(va) right after unmap(va) returns None, for every page va.
C3_UnmapThenTranslateNone ==
    (/\ last.op = "translate"
     /\ prev.op = "unmap"
     /\ And(last.va, Not(MASK4K)) = prev.va)
        => last.res = "Ok" /\ last.ret = None

\* C4: a map_leaf right after a map_leaf of the same va that
\* returned Ok fails with "Already mapped" and leaves the L1 entry as the
\* first call installed it, whatever the permissions of the first call.
C4_DuplicateMapLeaf ==
    (last.op = "map_leaf" /\ prev.op = "map_leaf" /\ last.va = prev.va)
        => /\ last.res = "Err"
           /\ last.err = "Already mapped"
           /\ EntryWord(mem, 1, last.va) = EntryWord(last.pre, 1, last.va)

\* C5: map and map_leaf of a va inside one of the eight windows stop at the
\* assertion with no memory written and no frame allocated, so that no call
\* that returns Ok has its va in a window.
C5_ForbiddenWindows ==
    (last.op \in {"map", "map_leaf"})
        => /\ InWindow(last.va)
                  => (last.res = "panic" /\ mem = last.pre /\ nalloc = last.pn)
           /\ last.res = "Ok" => ~InWindow(last.va)

\* C5: map_leaf at the base of the L1 self-map window stopped at the
\* assertion.
C5_Witness ==
    /\ last.op = "map_leaf"
    /\ last.va = BASE_ADDRESS(1)
    /\ last.res = "panic"

\* C6: after map or map_leaf returned Ok, the L4, L3 and L2 entries of va
\* are PRESENT and WRITE, those that were not present before carry no other
\* flag, and the L1 entry holds the frame f with PRESENT iff r, WRITE iff w,
\* NX iff not x and no other flag.
C6_MapFlags ==
    (last.op \in {"map", "map_leaf"} /\ last.res = "Ok")
        => /\ \A L \in 2..4 :
                  LET e == EntryWord(mem, L, last.va)
                      o == EntryWord(last.pre, L, last.va)
                  IN  /\ e.ok
                      /\ InteriorFlags \subseteq e.val
                      /\ (~o.ok \/ 0 \notin o.val)
                             => FlagBits(e.val) = InteriorFlags
           /\ LET e == EntryWord(mem, 1, last.va)
              IN  /\ e.ok
                  /\ FrameBits(e.val) = last.f
                  /\ FlagBits(e.val) = LeafFlags(last.perm)

\* C6: map returned Ok after allocating the three interior tables of va.
C6_Witness ==
    /\ last.op = "map"
    /\ last.res = "Ok"
    /\ nalloc = last.pn + 3
    /\ last.perm = <<TRUE, TRUE, FALSE>>

\* C7: map_leaf of a va one of whose L4, L3 and L2 entries is missing does
\* not return Ok (below the windows it returns the allocator's error),
\* writes no memory and allocates no frame.
C7_MapLeafNeverAllocates ==
    (last.op = "map_leaf" /\ Missing(last.pre, last.va))
        => /\ last.res \in {"Err", "panic"}
           /\ ~InWindow(last.va)
                  => (last.res = "Err" /\ last.err = "not a leaf")
           /\ mem = last.pre
           /\ nalloc = last.pn

\* C7: map_leaf was refused where the L4 and L3 entries of va are present
\* and the L2 entry is not.
C7_Witness ==
    /\ last.op = "map_leaf"
    /\ last.va = VA_A
    /\ last.res = "Err"
    /\ last.err = "not a leaf"
    /\ 0 \in EntryWord(last.pre, 3, VA_A).val
    /\ 0 \notin EntryWord(last.pre, 2, VA_A).val

\* C8: after make_ranges returned Ok, the L4, L3 and L2 entries of every
\* page of every range are PRESENT and WRITE, every word of the page tables
\* that was set before the call is unchanged, no word the call wrote lies
\* in an L1 table, and the L1 entry of every page of the ranges reads as it
\* did, or as zero where its table is new.
C8_MakeRanges ==
    (last.op = "make_ranges" /\ last.res = "Ok")
        => /\ \A va \in RangePages(last.rs), L \in 2..4 :
                  /\ EntryWord(mem, L, va).ok
                  /\ InteriorFlags \subseteq EntryWord(mem, L, va).val
           /\ \A pa \in DOMAIN last.pre : PhysRead(mem, pa) = last.pre[pa]
           /\ \A pa \in DOMAIN mem \ DOMAIN last.pre :
                  And(pa, 12..63) \notin TableFrames(mem, 1)
           /\ \A va \in RangePages(last.rs) :
                  \/ EntryWord(mem, 1, va) = EntryWord(last.pre, 1, va)
                  \/ ~EntryWord(last.pre, 1, va).ok
                         /\ EntryWord(mem, 1, va).val = {}

\* C8: make_ranges returned Ok over two ranges, allocating one table where
\* the other entries were already there.
C8_Witness ==
    /\ last.op = "make_ranges"
    /\ last.res = "Ok"
    /\ Len(last.rs) = 2
    /\ nalloc = last.pn + 1

\* C9: after make_shared_ranges returned Ok, for every page of every range
\* the entry of the side root in the page's L4 slot is the entry of the
\* current root, a PRESENT|WRITE reference to a table, and the call
\* returned the side root.
C9_MakeSharedRanges ==
    (last.op = "make_shared_ranges" /\ last.res = "Ok")
        => /\ \A va \in RangePages(last.rs) :
                  LET i == Shl(index(4, va), 3)
                      c == PhysRead(mem, Add(CR3, i))
                  IN  /\ PhysRead(mem, Add(last.f, i)) = c
                      /\ FlagBits(c) = InteriorFlags
                      /\ FrameBits(c) # {}
           /\ last.ret = Some(last.f)

\* C9: make_shared_ranges returned Ok over ranges in two L4 slots, one of
\* which was present before the call.
C9_Witness ==
    /\ last.op = "make_shared_ranges"
    /\ last.res = "Ok"
    /\ Len(last.rs) = 2
    /\ last.rs[2][1] = VA_H
    /\ PhysRead(last.pre, SlotAddr(CR3, 0)) = {}

\* C10: side_load(r) returns Ok for every 4 KiB-aligned frame r, writing
\* slot 510 of the root only, and the unload_side() that follows returns r
\* and leaves slot 510 zero and every other word as it was.
C10_SideLoadUnload ==
    /\ last.op = "side_load"
           => (last.res = "Ok" /\ SameBut(mem, last.pre, SideSlotAddr))
    /\ (last.op = "unload_side" /\ prev.op = "side_load")
           => /\ last.res = "Ok"
              /\ last.ret = Some(prev.f)
              /\ PhysRead(mem, SideSlotAddr) = {}
              /\ SameBut(mem, last.pre, SideSlotAddr)

\* C11: a call of side_load, unload_side or unmap_root_ranges that returns
\* has flushed the TLB after its last store to a page table, and one that
\* does not return (a failed assertion, a page fault) has stored nothing.
C11_TLBFlush ==
    (last.op \in {"side_load", "unload_side", "unmap_root_ranges"})
        => /\ last.res \in {"Ok", "Err"} => last.tlb = "flushed"
           /\ last.res \notin {"Ok", "Err"} => last.tlb = "none"

\* C11: unmap_root_ranges returned after it cleared a root entry that was
\* set, and had flushed.
C11_Witness ==
    /\ last.op = "unmap_root_ranges"
    /\ last.res = "Ok"
    /\ mem # last.pre
    /\ last.tlb = "flushed"

\* C12: slot 511 of the current root is a PRESENT|WRITE reference to the
\* root itself, after every sequence of calls.
C12_SelfMap ==
    PhysRead(mem, SlotAddr(CR3, SELF_INDEX)) = Or(CR3, InteriorFlags)

\* C13: when load returns, slot 511 of the root it returns is a
\* PRESENT|WRITE reference to that root.
C13_LoadedRootSelfMapped ==
    (last.op \in {"load_task", "load_segment"} /\ last.res = "Ok")
        => PhysRead(mem, SlotAddr(last.ret.v, SELF_INDEX))
               = Or(last.ret.v, InteriorFlags)

---------------------------------------------------------------------------
(* Properties of the bump allocator.                                       *)

\* The offset the closure computes from cursor c for alignment align, as a
\* number that does not wrap.
AlignedFrom(c, align) ==
    c + ((align - ((bump.heap.base + c) % align)) % align)

\* The end of the i-th region handed out, 0 before the first.
EndOf(i) == IF i = 0 THEN 0 ELSE bump.log[i].offset + bump.log[i].size

\* C14: of any two regions alloc_bytes has handed out, the earlier ends
\* where the later starts or before.
C14_NoOverlap ==
    \A i, j \in DOMAIN bump.log :
        i < j => bump.heap.base + bump.log[i].offset + bump.log[i].size
                     <= bump.heap.base + bump.log[j].offset

\* C14: three regions were handed out.
C14_Witness == Len(bump.log) = 3

\* C15: every region handed out lies inside the heap and starts at an
\* address that is a multiple of the alignment asked for.
C15_InsideAndAligned ==
    \A i \in DOMAIN bump.log :
        /\ bump.log[i].offset + bump.log[i].size <= bump.heap.len
        /\ (bump.heap.base + bump.log[i].offset) % bump.log[i].align = 0

\* C15: a 4096-aligned region was handed out of a heap whose base is not
\* 4096-aligned, at an offset that is not a multiple of 4096.
C15_Witness ==
    /\ bump.heap.base % 4096 # 0
    /\ \E i \in DOMAIN bump.log :
          bump.log[i].align = 4096 /\ bump.log[i].offset % 4096 # 0

\* C16: a call of alloc_bytes ends in failure (None) exactly when the
\* aligned offset plus the size exceeds the length of the heap, a failed
\* call leaves the cursor as it read it, and calls of (4096, 4096) on a
\* 4 KiB-aligned heap of 12 KiB get the offsets 0, 4096 and 8192 and then
\* fail.
C16_Exhaustion ==
    /\ \A t \in Threads :
          bump.th[t].pc \in {"ret", "panic"}
              => /\ (bump.th[t].pc = "ret" /\ bump.th[t].f.k = "None")
                        <=> (AlignedFrom(bump.th[t].current, bump.th[t].align)
                                 + bump.th[t].size > bump.heap.len)
                 /\ (bump.th[t].f.k = "None"
                         /\ bump.th[t].seen = Len(bump.log))
                        => bump.cursor = bump.th[t].current
    /\ (/\ bump.heap.base % 4096 = 0
        /\ bump.heap.len = 12288
        /\ \A i \in DOMAIN bump.log :
               bump.log[i].align = 4096 /\ bump.log[i].size = 4096)
           => /\ \A i \in DOMAIN bump.log : bump.log[i].offset = 4096 * (i - 1)
              /\ \A t \in Threads :
                     (/\ bump.th[t].pc = "ret"
                      /\ bump.th[t].align = 4096
                      /\ bump.th[t].size = 4096)
                         => (bump.th[t].f.k = "None" <=> bump.th[t].seen = 3)

\* C17: the regions handed out are pairwise disjoint, each starts at the
\* offset the closure computes from the end of the region before it, the
\* cursor is the end of the last one, and a caller that returns Some
\* returns the offset of the attempt whose compare-exchange succeeded.
C17_Linearizable ==
    /\ \A i, j \in DOMAIN bump.log :
          i # j => \/ EndOf(i) <= bump.log[j].offset
                   \/ EndOf(j) <= bump.log[i].offset
    /\ \A i \in DOMAIN bump.log :
          bump.log[i].offset = AlignedFrom(EndOf(i - 1), bump.log[i].align)
    /\ bump.cursor = EndOf(Len(bump.log))
    /\ \A t \in Threads :
          (bump.th[t].pc = "ret" /\ bump.th[t].f.k = "Some")
              => \E i \in DOMAIN bump.log :
                     /\ bump.log[i].t = t
                     /\ bump.log[i].offset = bump.th[t].f.offset
                     /\ EndOf(i - 1) = bump.th[t].current
                     /\ \A j \in DOMAIN bump.log :
                            bump.log[j].t = t => j <= i

\* C17: a caller lost the compare-exchange to the other caller, applied
\* the closure again and was handed the region after the other's.
C17_Witness ==
    \E t \in Threads :
        /\ bump.th[t].pc = "ret"
        /\ bump.th[t].f.k = "Some"
        /\ bump.th[t].retried
        /\ bump.th[t].current > 0
        /\ Len(bump.log) = 2
        /\ bump.log[1].t # t
        /\ bump.log[2].t = t

\* C18: a call of alloc_bytes whose padding or size makes the proposed
\* cursor overflow returns None, and the cursor is as the call read it.
C18_OverflowFails ==
    \A t \in Threads :
        (/\ bump.th[t].pc \in {"ret", "panic"}
         /\ AlignedFrom(bump.th[t].current, bump.th[t].align)
                + bump.th[t].size > USIZE_MAX)
            => /\ bump.th[t].pc = "ret"
               /\ bump.th[t].f.k = "None"
               /\ bump.th[t].seen = Len(bump.log)
                      => bump.cursor = bump.th[t].current

---------------------------------------------------------------------------
(* Properties of the start of the application processors.                  *)

\* The place of an event in the order of start_aps.
Rank(ev) ==
    CASE ev[1] = "stage" -> 1
      [] ev[1] = "init" -> 2
      [] ev[1] = "pause_10ms" -> 3
      [] ev[1] = "sipi_all" -> 4
      [] ev[1] = "poll" -> 5
      [] ev[1] = "sipi" -> 6
      [] ev[1] = "wait" -> 7

\* C19: what the bootstrap processor does in start_aps is, in this order:
\* the SIPI page is set up, INIT is broadcast, the 10 ms pause, STARTUP is
\* broadcast with vector 7, the polling loop, the directed STARTUPs, the
\* wait for the rendezvous; each but the directed STARTUPs happens once and
\* none before all that precede it, so the page is not written after INIT.
C19_BringUpOrder ==
    /\ \A i, j \in DOMAIN mp.log :
          i < j => /\ Rank(mp.log[i]) <= Rank(mp.log[j])
                   /\ Rank(mp.log[i]) = Rank(mp.log[j])
                          => Rank(mp.log[i]) = 6
    /\ \A j \in DOMAIN mp.log :
          \A r \in 1..5 :
              r < Rank(mp.log[j]) => \E i \in 1..(j - 1) : Rank(mp.log[i]) = r
    /\ \A j \in DOMAIN mp.log : mp.log[j][1] = "sipi_all" => mp.log[j][2] = 7
    /\ mp.pc = "done" => \E j \in DOMAIN mp.log : mp.log[j][1] = "wait"

\* C19: start_aps returned after directed STARTUPs were sent.
C19_Witness ==
    /\ mp.pc = "done"
    /\ \E j \in DOMAIN mp.log : mp.log[j][1] = "sipi"
    /\ mp.count = Cardinality(CPUs)

\* C20: if the state of every application processor was RUNNING when the
\* polling loop was left, no directed STARTUP is sent and init_sipi_sipi
\* returns from the polling loop.
C20_HappyPath ==
    (mp.pc \in {"second_sipi", "wait_for_aps", "done", "panic"}
         /\ APs \subseteq mp.window)
        => /\ \A j \in DOMAIN mp.log : mp.log[j][1] # "sipi"
           /\ mp.pc # "second_sipi"

\* The number of places of the sequence q that hold x.
Times(q, x) == Cardinality({j \in DOMAIN q : q[j] = x})

\* C21: the polling loop that runs out is followed by the second loop and
\* is no panic; the second loop examines each CPU once, in the order of
\* cpus; a CPU whose state it loaded as not RUNNING has got exactly one
\* directed STARTUP, with vector 7, a CPU whose state it loaded as RUNNING
\* has got none, and so has a CPU it has not examined.
C21_SecondSipi ==
    /\ mp.pc = "panic" => \E j \in DOMAIN mp.log : mp.log[j][1] = "wait"
    /\ mp.obs # <<>> => mp.delay = MaxPolls
    /\ \A k \in DOMAIN mp.obs : mp.obs[k][1] = k - 1
    /\ (mp.pc \in {"wait_for_aps", "done", "panic"} /\ mp.window # CPUs)
           => Len(mp.obs) = Cardinality(CPUs)
    /\ \A j \in DOMAIN mp.log :
           mp.log[j][1] = "sipi" => mp.log[j][2] \in CPUs /\ mp.log[j][3] = 7
    /\ \A c \in CPUs :
           Times(mp.log, <<"sipi", c, 7>>)
               = IF \E k \in DOMAIN mp.obs :
                        mp.obs[k][1] = c /\ mp.obs[k][2] # STATE_RUNNING
                 THEN 1 ELSE 0

\* C21: the second loop is over; it found one application processor
\* RUNNING and another not, and start_aps returned.
C21_Witness ==
    /\ mp.pc = "done"
    /\ \E k \in DOMAIN mp.obs : mp.obs[k][2] = STATE_RUNNING
    /\ \E k \in DOMAIN mp.obs : mp.obs[k][1] \in APs /\ mp.obs[k][2] = 0

\* C22: wait_for_aps has returned only where COUNT is the number of CPUs;
\* the bootstrap processor has panicked only in wait_for_aps, with "APs not
\* started" and after the last poll; where the polls are used up the next
\* step of wait_for_aps is that panic, whatever COUNT is by then; and after
\* the panic the bootstrap processor does nothing further, so start_aps
\* does not return.
C22_WaitForAps ==
    /\ [](mp.pc = "done" => mp.count = Cardinality(CPUs))
    /\ [](mp.pc = "panic" => mp.msg = "APs not started" /\ mp.waits = MaxWaits)
    /\ [][(mp.pc = "wait_for_aps" /\ mp.waits = MaxWaits /\ mp'.pc # mp.pc)
              => mp'.pc = "panic"]_vars
    /\ [][(mp.pc = "wait_for_aps" /\ mp'.pc = "done")
              => mp.count = Cardinality(CPUs) /\ mp.waits < MaxWaits]_vars
    /\ [][mp.pc = "panic"
              => mp'.pc = "panic" /\ mp'.log = mp.log /\ mp'.msg = mp.msg]_vars

\* C22: the bootstrap processor panicked in wait_for_aps while an
\* application processor had not signalled.
C22_Witness ==
    /\ mp.pc = "panic"
    /\ mp.msg = "APs not started"
    /\ mp.count < Cardinality(CPUs)

---------------------------------------------------------------------------
(* Properties of the loader.                                               *)

\* The word of the root in frame root that covers va.
RootSlot(root, va) == PhysRead(mem, Add(root, Shl(index(4, va), 3)))

\* C25: when load of a Task has returned, the root it returns has no
\* present entry for the start of any loadable range, and a frame the load
\* allocated is a level-3 table under which the start of the range is
\* still mapped.
C25_TaskRootCleared ==
    (last.op = "load_task" /\ last.res = "Ok")
        => \A k \in DOMAIN last.rs :
               /\ ~is_present(RootSlot(last.ret.v, last.rs[k][1]))
               /\ \E n \in 0..(nalloc - 1) :
                      MmuWalk(mem, last.rs[k][1], AllocFrame(n), 30).ok

\* C29: of all the calls of start only the first gets past the opening
\* test, every later one panics, and the IDT and the GDT are initialised
\* at most once.
C29_StartOnce ==
    /\ plat.calls >= 1 => plat.panics = plat.calls - 1
    /\ plat.idt <= 1
    /\ plat.gdt <= 1

\* C23: when every binary of the table was loaded and start_aps returned
\* with all processors counted, main has not panicked.
C23_ExitToSupervisor ==
    (boot.i = Len(BINARY_TABLE) /\ mp.pc = "done") => boot.pc # "panic"

\* The pages of the loadable headers of the binary of turn j of the loop.
ImagePages(j) == RangePages(vm_ranges(boot.img.bin[j].headers).regions)

\* C24: the turns of the loop of main follow BINARY_TABLE; in the turn of a
\* Task no entry is invoked; in the turn of a Segment that loaded the
\* entry is invoked once, as the last thing load does, after a page was
\* mapped at every 4 KiB page of every loadable header; a load that failed
\* has invoked no entry.
C24_EntryByKind ==
    \A j \in DOMAIN boot.log :
        /\ boot.log[j].i = j - 1
        /\ boot.log[j].typ = BINARY_TABLE[j][3]
        /\ (boot.log[j].typ = "Task" \/ boot.log[j].res # "run")
               => Times(boot.log[j].ev, <<"entry">>) = 0
        /\ (boot.log[j].typ = "Segment" /\ boot.log[j].res = "run")
               => /\ Times(boot.log[j].ev, <<"entry">>) = 1
                  /\ boot.log[j].ev[Len(boot.log[j].ev)] = <<"entry">>
                  /\ \A va \in ImagePages(j) :
                         \E k \in DOMAIN boot.log[j].ev :
                             /\ boot.log[j].ev[k][1] = "page"
                             /\ boot.log[j].ev[k][2] = va

\* C24: the loop of main is over, all ten binaries were loaded.
C24_Witness ==
    /\ boot.pc = "int3"
    /\ Len(boot.log) = Len(BINARY_TABLE)
    /\ \A j \in DOMAIN boot.log : boot.log[j].res = "run"

\* C26: when the loop of main over BINARY_TABLE is over, every page a
\* Segment was loaded at is translated to the frame it was mapped to, and
\* no page a Task was loaded at is translated.
C26_SegmentsStayMapped ==
    boot.pc = "int3"
        => \A j \in DOMAIN boot.log :
               \A k \in DOMAIN boot.log[j].ev :
                   boot.log[j].ev[k][1] = "page"
                       => translate(mem, boot.log[j].ev[k][2])
                              = IF boot.log[j].typ = "Segment"
                                THEN Some(boot.log[j].ev[k][3])
                                ELSE None

\* The frames the load of turn j allocated.
Allocated(j) ==
    {boot.log[j].ev[k][2] :
         k \in {x \in DOMAIN boot.log[j].ev : boot.log[j].ev[x][1] = "alloc"}}

\* C27: binary i of the table is loaded at (64 + 32 * i) MiB; every frame
\* allocated in its load lies in the 16 MiB from there on, the root load
\* returns and the frames of its pages are among them, and each is the
\* frame its address in the boot mapping is translated to; the regions of
\* two binaries do not overlap.
C27_Confinement ==
    /\ \A j \in DOMAIN boot.log :
           /\ boot.log[j].addr = BINARY_TABLE[j][2]
           /\ Num(boot.log[j].addr) = (64 + 32 * (j - 1)) * 1048576
           /\ \A f \in Allocated(j) :
                  /\ Num(f) >= Num(boot.log[j].addr)
                  /\ Num(f) + 4096 <= Num(boot.log[j].addr)
                                          + Num(BINARY_IMAGE_MEMORY_SIZE)
                  /\ boot.pc \in {"load", "int3"}
                         => translate(mem, Or(HYPER_BASE, f)) = Some(f)
           /\ boot.log[j].res = "run" => boot.log[j].root \in Allocated(j)
           /\ \A k \in DOMAIN boot.log[j].ev :
                  boot.log[j].ev[k][1] = "page"
                      => boot.log[j].ev[k][3] \in Allocated(j)
    /\ \A i, j \in DOMAIN BINARY_TABLE :
           i < j => Num(BINARY_TABLE[i][2]) + Num(BINARY_IMAGE_MEMORY_SIZE)
                        <= Num(BINARY_TABLE[j][2])

\* C27: all ten binaries were loaded, and those after the first found the
\* tables of their pages made by the load of another.
C27_Witness ==
    /\ boot.pc = "int3"
    /\ Len(boot.log) = Len(BINARY_TABLE)
    /\ Cardinality(Allocated(1)) = 5
    /\ Cardinality(Allocated(2)) = 2

\* C28: a turn of the loop of main that failed is the last one and has left
\* the loader in the panic state; the loop never got past a binary that
\* cannot be extracted or parsed or has a header that fails an assertion,
\* nor main past a boot image without a usable bin.a; in the panic state
\* the console holds the block of print_panic, once; the panic of
\* wait_for_aps is followed by nothing but the panic handler; and in the
\* panic state the loader takes no step: no binary is loaded, no page
\* table written, no entry invoked, no IPI sent.
C28_PanicAbsorbs ==
    /\ [](\A j \in DOMAIN boot.log :
             boot.log[j].res = "panic"
                 => j = Len(boot.log) /\ boot.pc = "panic")
    /\ [](\A j \in 1..boot.i :
             /\ boot.img.bin[j].extract
             /\ boot.img.bin[j].elf
             /\ vm_ranges(boot.img.bin[j].headers).msg = "")
    /\ [](boot.pc \in {"load", "int3", "start_aps", "in_start_aps"}
             => boot.img.fits /\ boot.img.bins /\ boot.img.archive)
    /\ [](boot.pc = "panic"
             => /\ Len(boot.out) = 5
                /\ boot.out[1] = "PANIC: "
                /\ boot.out[5] = "System halted.")
    /\ [](boot.pc # "panic" => boot.out = <<>>)
    /\ [][mp.pc = "panic"
              => /\ mp'.pc = "panic" /\ mp'.log = mp.log
                 /\ mem' = mem /\ boot'.log = boot.log
                 /\ boot'.pc \in {boot.pc, "panic"}]_vars
    /\ [][boot.pc = "panic"
              => /\ boot' = boot /\ mem' = mem /\ nalloc' = nalloc
                 /\ mp'.pc = mp.pc /\ mp'.log = mp.log]_vars

\* C28: the loader panicked on a map error in the load of the second
\* binary.
C28_Witness ==
    /\ boot.pc = "panic"
    /\ Len(boot.log) = 2
    /\ boot.log[2].res = "panic"
    /\ boot.out[3] = "Already mapped"

---------------------------------------------------------------------------
(* Properties of translate over big pages.                                 *)

\* The entry of level L of va is read without a fault and is present.
PresentAt(m, L, va) ==
    EntryWord(m, L, va).ok /\ 0 \in EntryWord(m, L, va).val

\* The entry of level L of va is read without a fault and is not present.
AbsentAt(m, L, va) ==
    EntryWord(m, L, va).ok /\ 0 \notin EntryWord(m, L, va).val

\* The entry of level L of va is present and names a table.
TableAt(m, L, va) ==
    PresentAt(m, L, va) /\ (L = 4 \/ 7 \notin EntryWord(m, L, va).val)

\* The entry of level L (3 or 2) of va is present with HUGE set.
BigAt(m, L, va) ==
    PresentAt(m, L, va) /\ 7 \in EntryWord(m, L, va).val

\* C30: where the walk of va meets a present L3 entry with HUGE set,
\* translate(va) is the frame address of that entry plus the low 30 bits of
\* va and the walk holds no L2 and no L1 entry; where it meets a present L2
\* entry with HUGE set under a table at L3, translate(va) is the frame
\* address of that entry plus the low 21 bits of va and the walk holds no L1
\* entry; where the entry of a level on the path of va is not present,
\* translate(va) is None.
C30_BigPagesTerminate ==
    (last.op = "translate")
        => /\ (TableAt(last.pre, 4, last.va) /\ BigAt(last.pre, 3, last.va))
                  => /\ last.ret =
                            Some(Add(FrameBits(EntryWord(last.pre, 3,
                                                         last.va).val),
                                     And(last.va, 0..29)))
                     /\ walk(last.pre, last.va).ok
                     /\ walk(last.pre, last.va).w[3] = None
                     /\ walk(last.pre, last.va).w[4] = None
           /\ (/\ TableAt(last.pre, 4, last.va)
               /\ TableAt(last.pre, 3, last.va)
               /\ BigAt(last.pre, 2, last.va))
                  => /\ last.ret =
                            Some(Add(FrameBits(EntryWord(last.pre, 2,
                                                         last.va).val),
                                     And(last.va, 0..20)))
                     /\ walk(last.pre, last.va).ok
                     /\ walk(last.pre, last.va).w[4] = None
           /\ (\E L \in 1..4 :
                   /\ AbsentAt(last.pre, L, last.va)
                   /\ \A K \in (L + 1)..4 : TableAt(last.pre, K, last.va))
                  => last.ret = None

\* C30: translate gave HPA(0x5000) for 0xFFFF_8000_0000_5000, which the L3
\* entry of the 1 GiB page covers, and the walk held no L2 and no L1 entry.
C30_Witness ==
    /\ last.op = "translate"
    /\ last.va = VA_G
    /\ BigAt(last.pre, 3, last.va)
    /\ last.ret = Some({12, 14})
    /\ walk(last.pre, last.va).w[3] = None

---------------------------------------------------------------------------
(* Properties of PTE, of the page-address types and of Level::index.       *)

\* C33: PTE::new(h, F) of a 4 KiB-aligned h below 2^52 succeeds, pfa() of
\* the entry is h and flags() is F; and PTE::new stops at its assertion
\* only where h has one of its low 12 bits or a bit from 52 on set.
C33_PteFrameField ==
    (calc.op = "PTE::new")
        => /\ (And(calc.a, 0..11) = {} /\ And(calc.a, 52..63) = {})
                  => /\ calc.res = "Ok"
                     /\ calc.out[2] = calc.a
                     /\ calc.out[2] = And(calc.out[1], 12..51)
                     /\ calc.out[3] = calc.b
           /\ calc.res = "panic"
                  => (And(calc.a, 0..11) # {} \/ And(calc.a, 52..63) # {})

\* The word w is a multiple of the page size of level L.
MultipleOf(L, w) == And(w, PAGE_MASK(L)) = {}

\* C34: for the page size S of each level and every va, round_down(va) is
\* the largest multiple of S that is <= va, and round_up(va) is a multiple
\* of S that is >= va, va itself where va is a multiple and round_down(va)
\* + S otherwise, never a value below va; round_up(0) = 0 and
\* round_up(1) = S.
C34_RoundUpDown ==
    (calc.op = "round")
        => /\ MultipleOf(calc.b, calc.out[1])
           /\ Xor(calc.a, calc.out[1]) \subseteq PAGE_MASK(calc.b)
           /\ MultipleOf(calc.b, calc.out[2])
           /\ ~Lt(calc.out[2], calc.a)
           /\ MultipleOf(calc.b, calc.a) => calc.out[2] = calc.a
           /\ (~MultipleOf(calc.b, calc.a)
                   /\ Not(PAGE_MASK(calc.b)) \ calc.a # {})
                  => calc.out[2] = Add(calc.out[1], PAGE_SIZE(calc.b))
           /\ calc.a = {} => calc.out[2] = {}
           /\ calc.a = {0} => calc.out[2] = PAGE_SIZE(calc.b)

\* (va mod 2^48) div 2^s as a word: the bits s..47 of va, moved down by s.
IndexBits(va, s) == {b - s : b \in {x \in va : x >= s /\ x <= 47}}

\* C35: for each level L with shift s and every va, index_L(va) is
\* (va mod 2^48) div 2^s and the PTE of va at level L is at
\* BASE_L + 8 * index_L(va), which sets no bit that BASE_L holds; the L4
\* index of the L4 self base is 511, the L3 index of 0x80_0000_0000 is 512,
\* the L2 index of 0xFFFF_8000_4000_0000 is 2^26 + 512 and the L1 index of
\* 0xFFFF_FFFF_FFFF_E000 is 2^36 - 2.
C35_IndexAndPteAddress ==
    (calc.op = "index")
        => /\ calc.out[1] = IndexBits(calc.a, PAGE_SHIFT(calc.b))
           /\ calc.out[2] =
                  Or(BASE_ADDRESS(calc.b),
                     {b + 3 : b \in IndexBits(calc.a, PAGE_SHIFT(calc.b))})
           /\ And(BASE_ADDRESS(calc.b),
                  {b + 3 : b \in IndexBits(calc.a, PAGE_SHIFT(calc.b))}) = {}
           /\ (calc.b = 4 /\ calc.a = 12..63) => calc.out[1] = 0..8
           /\ (calc.b = 3 /\ calc.a = {39}) => calc.out[1] = {9}
           /\ (calc.b = 2 /\ calc.a = Or(47..63, {30}))
                  => calc.out[1] = {9, 26}
           /\ (calc.b = 1 /\ calc.a = 13..63) => calc.out[1] = 1..35

\* C35: Level2::index(0xFFFF_8000_4000_0000) gave 2^26 + 512 and pte_ref
\* the address 0xFFFF_FFFF_E000_1000.
C35_Witness ==
    /\ calc.op = "index"
    /\ calc.b = 2
    /\ calc.a = Or(47..63, {30})
    /\ calc.out[1] = {9, 26}
    /\ calc.out[2] = Or(29..63, {12})

---------------------------------------------------------------------------
(* Properties of share_range and of the side-load slot.                    *)

\* The entry of va at level L of the address space of the root in frame
\* table, read as the processor walks from level K down: ok is FALSE where
\* an entry above L is not present or is a big page.
RECURSIVE PathEntry(_, _, _, _, _)
PathEntry(m, table, K, L, va) ==
    CHOOSE r \in
        {IF K = L THEN [ok |-> TRUE, val |-> e]
         ELSE IF 0 \notin e \/ (K < 4 /\ 7 \in e)
         THEN [ok |-> FALSE, val |-> {}]
         ELSE PathEntry(m, FrameBits(e), K - 1, L, va) :
             e \in {PhysRead(m, Add(table,
                                    Shl(MmuIndex(va, PAGE_SHIFT(K)), 3)))}} :
                 TRUE

\* The steps <<"share", va, L>> of the last call of share_range, in order.
ShareSteps == SelectSeq(calc.out, LAMBDA e : e[1] = "share")

\* The last page of the step of level L at va.
LastPage(va, L) == Or(va, 12..(PAGE_SHIFT(L) - 1))

\* C32: share_range(start..end, side, alloc) with start <= end below the
\* side-map window returns Ok or Err; its steps begin at start, each
\* advances by the largest page size that its address is a multiple of and
\* that does not pass end, and on Ok they end at end; on Ok the entry of
\* the side space at the level of each step is the entry of the current
\* space, and the side space translates the first and the last page of each
\* step as the current space does.
C32_ShareRange ==
    (last.op = "share_range" /\ ~Lt(SIDE_BASE_ADDRESS(1), calc.b))
        => /\ last.res \in {"Ok", "Err"}
           /\ \A k \in DOMAIN ShareSteps :
                  /\ ShareSteps[k][2] =
                         (IF k = 1 THEN calc.a
                          ELSE Add(ShareSteps[k - 1][2],
                                   PAGE_SIZE(ShareSteps[k - 1][3])))
                  /\ MultipleOf(ShareSteps[k][3], ShareSteps[k][2])
                  /\ ~Lt(calc.b, Add(ShareSteps[k][2],
                                     PAGE_SIZE(ShareSteps[k][3])))
                  /\ \A K \in (ShareSteps[k][3] + 1)..4 :
                         \/ ~MultipleOf(K, ShareSteps[k][2])
                         \/ Lt(calc.b, Add(ShareSteps[k][2], PAGE_SIZE(K)))
           /\ last.res = "Ok"
                  => /\ (ShareSteps = <<>>) <=> (calc.a = calc.b)
                     /\ ShareSteps # <<>>
                            => Add(ShareSteps[Len(ShareSteps)][2],
                                   PAGE_SIZE(ShareSteps[Len(ShareSteps)][3]))
                                   = calc.b
                     /\ \A k \in DOMAIN ShareSteps :
                            /\ PathEntry(mem, CR3, 4, ShareSteps[k][3],
                                         ShareSteps[k][2]).ok
                                   => PathEntry(mem, SIDE1, 4,
                                                ShareSteps[k][3],
                                                ShareSteps[k][2])
                                          = PathEntry(mem, CR3, 4,
                                                      ShareSteps[k][3],
                                                      ShareSteps[k][2])
                            /\ \A v \in {ShareSteps[k][2],
                                          LastPage(ShareSteps[k][2],
                                                   ShareSteps[k][3])} :
                                   MmuWalk(mem, v, SIDE1, 39)
                                       = MmuWalk(mem, v, CR3, 39)

\* C36: when make_shared_ranges or share_range has returned, with Ok or
\* with the Err of its allocator callback, slot 510 of the current root is
\* empty.
C36_SideSlotReleased ==
    (last.op \in {"make_shared_ranges", "share_range"}
         /\ last.res \in {"Ok", "Err"})
        => PhysRead(mem, SideSlotAddr) = {}

---------------------------------------------------------------------------
(* Properties of map over pages that are mapped.                           *)

\* C37: where translate(va) is Some before map(f, flags, va, alloc), for a
\* va below the self- and side-map windows, the call returns the error
\* Already mapped, its allocator is not called, no word of memory is
\* written and translate(va) is what it was.
C37_MapNeverOverrides ==
    (/\ last.op = "map"
     /\ Lt(last.va, SIDE_BASE_ADDRESS(1))
     /\ translate(last.pre, last.va).k = "Some")
        => /\ last.res = "Err"
           /\ last.err = "Already mapped"
           /\ nalloc = last.pn
           /\ mem = last.pre
           /\ translate(mem, last.va) = translate(last.pre, last.va)

---------------------------------------------------------------------------
(* Properties of the second STARTUP and of apmain.                         *)

\* C38: no directed STARTUP IPI is addressed to the APIC id of the
\* bootstrap processor.
C38_NoSipiToSelf ==
    \A j \in DOMAIN mp.log : mp.log[j][1] = "sipi" => mp.log[j][2] # BSP

\* The application processor c is between the exchange that set S and the
\* store that clears it.
Holds(c) == mp.ap[c] \in {"println", "println2", "store"}

\* C39: at most one application processor is between acquiring S and
\* releasing it, and S is set exactly then; the two writes of each
\* processor are next to each other on the UART; COUNT is raised by one
\* processor at a time, by a processor that has released S and halts next;
\* and a processor that holds S releases it.
C39_ApmainMutex ==
    /\ [](Cardinality({c \in APs : Holds(c)}) <= 1)
    /\ [](mp.S <=> \E c \in APs : Holds(c))
    /\ [](\A j \in DOMAIN mp.uart :
             /\ mp.uart[j][2] = "Hello from "
                    => IF j < Len(mp.uart)
                       THEN mp.uart[j + 1] = <<mp.uart[j][1], "id">>
                       ELSE mp.ap[mp.uart[j][1]] = "println2"
             /\ mp.uart[j][2] = "id"
                    => j > 1 /\ mp.uart[j - 1] = <<mp.uart[j][1], "Hello from ">>)
    /\ [](mp.count = 1 + Cardinality({c \in APs : mp.ap[c] = "hlt"}))
    /\ [][mp'.count # mp.count
              => \E c \in APs :
                     /\ mp.ap[c] = "signal_ap" /\ mp'.ap[c] = "hlt"
                     /\ mp'.count = mp.count + 1
                     /\ ~Holds(c)
                     /\ Times(mp.uart, <<c, "id">>) = 1]_vars
    /\ [](mp.S => \E c \in APs : mp.ap[c] # "hlt" /\ Holds(c))
    /\ \A c \in APs : Holds(c) ~> mp.ap[c] = "signal_ap"

\* C39: one application processor is between its two writes while another
\* has entered apmain and waits for S and the third has halted.
C39_Witness ==
    /\ \E c \in APs : mp.ap[c] = "println2"
    /\ \E c \in APs : mp.ap[c] = "apmain"
    /\ \E c \in APs : mp.ap[c] = "hlt"
    /\ mp.S

\* C40: COUNT never exceeds the number of CPUs, and with every
\* application processor going through apmain once it comes to equal that
\* number and stays so.
C40_RendezvousLiveness ==
    /\ [](mp.count <= Cardinality(CPUs))
    /\ <>[](mp.count = Cardinality(CPUs))
    /\ [][mp'.count >= mp.count]_vars

\* C40: the three application processors have halted and COUNT is 4, the
\* length of cpus.
C40_Witness ==
    /\ \A c \in APs : mp.ap[c] = "hlt"
    /\ mp.count = 4
    /\ rendezvous(mp.count)


---------------------------------------------------------------------------
(* Properties of the pages load copies in.                                 *)

\* The events of the last call of load with the tag tag and the frame f.
EventsOf(tag, f) ==
    {j \in DOMAIN calc.out :
         /\ calc.out[j][1] = tag
         /\ calc.out[j][IF tag = "page" THEN 3 ELSE 2] = f}

\* n = min(4096, max(0, F - k * 4096))
FileBytes(F, k) ==
    IF F - k * Page4K_SIZE <= 0 THEN 0
    ELSE IF F - k * Page4K_SIZE < Page4K_SIZE THEN F - k * Page4K_SIZE
    ELSE Page4K_SIZE

\* Page k of header h of the last call of load, at addr, was given the
\* frame f of its own, f was all zeroes and holds no word of a page table,
\* the first FileBytes bytes of f are the bytes of the file from
\* k * 4096 on and nothing else was written to f, and the L1 entry of addr
\* under the root that load returned is f with the flags of the
\* permissions.
CopiedIn(h, k, addr, f) ==
    /\ Cardinality(EventsOf("alloc", f)) = 1
    /\ Cardinality(EventsOf("page", f)) = 1
    /\ f # last.ret.v
    /\ \A pa \in DOMAIN last.pre \cup DOMAIN mem : And(pa, 12..63) # f
    /\ \E n \in {FileBytes(calc.a, k)} :
           {calc.out[j] : j \in EventsOf("copy", f)}
               = IF n = 0 THEN {}
                 ELSE {<<"copy", f, k * Page4K_SIZE, n>>}
    /\ Cardinality(EventsOf("copy", f)) <= 1
    /\ PathEntry(mem, last.ret.v, 4, 1, addr)
           = [ok |-> TRUE,
              val |-> Or(f, page_perm_flags(last.perm[1], last.perm[2],
                                            last.perm[3]))]

\* C31: after load has returned Ok, for every header and every page k of
\* its range, the frame mapped at start + k * 4096 is a frame allocated for
\* this page alone, it holds the n = min(4096, max(0, F - k * 4096)) bytes
\* of the file from k * 4096 on followed by zeroes, and it is mapped with the
\* permissions of the header.
C31_CopyIn ==
    (calc.op = "load" /\ calc.res = "Ok")
        => \A h \in DOMAIN last.rs : \A k \in 0..3 :
               \E addr \in {Add(last.rs[h][1], Shl(Word(k), 12))} :
                   Lt(addr, last.rs[h][2])
                       => \E j \in DOMAIN calc.out :
                              /\ calc.out[j][1] = "page"
                              /\ calc.out[j][2] = addr
                              /\ CopiedIn(h, k, addr, calc.out[j][3])

====
